---- MODULE Spec2Model ----
(***************************************************************************)
(* Model of the mailbox store (server/services/mailbox.service.js, the     *)
(* storage-mode aware MailboxService) on a whole-set backend (blob/file),  *)
(* together with its promise-chain write lock and the two-phase blob write *)
(* of server/utils/blob-store.js.                                          *)
(*                                                                         *)
(* Conventions:                                                            *)
(*  - a JavaScript string is a sequence of one-character strings, so that  *)
(*    .length is Len and the e-mail regular expression is evaluated on the *)
(*    characters; the empty sequence stands for both "" and undefined      *)
(*    (the code only ever tests such values for truthiness);               *)
(*  - source tags are TLA+ strings, "" standing for an absent source;      *)
(*  - a promise of the lock chain is named by the caller that created it;  *)
(*    a resolved promise is the token 0 (all resolved promises behave the  *)
(*    same under await);                                                   *)
(*  - uuidv4() is a counter: every id handed out is fresh.                 *)
(***************************************************************************)
EXTENDS Integers, Sequences, FiniteSets, TLC

\* ---------------------------------------------------------------- bounds
NumProcs == 3      \* concurrent callers (request handlers)
MaxCalls == 3      \* calls issued in one run of concurrent callers
MaxSeqCalls == 4   \* calls issued in one run of a single caller
MaxId    == 3      \* ids uuidv4() may hand out in one run of concurrent callers or of a sweeping caller
MaxSeqId == 2      \* ids uuidv4() may hand out in one run of a single caller
MaxClock == 1      \* ticks of the wall clock in one run
MaxSweepCalls == 3 \* calls issued in one run of a caller that sweeps

Procs == 1..NumProcs

\* ------------------------------------------------------ program constants
MaxEmailLen        == 255
MaxPasswordLen     == 1024
MaxClientIdLen     == 255
MaxRefreshTokenLen == 2048

VARIABLES
    blob,          \* the stored object: [exists, data]; data is the array of records
    writeLock,     \* this.writeLock: token of the promise at the tail of the chain
    previousLock,  \* per caller: the promise it awaits in _acquireWriteLock
    pc,            \* per caller: position in its handler
    op,            \* per caller: the call it is running / has last run
    local,         \* per caller: the array it read (allMailboxes), mutated in place
    result,        \* per caller: what the call returned or threw
    nextId,        \* number of ids uuidv4() has handed out
    clock,         \* wall clock read by new Date()
    calls,         \* number of calls issued so far
    acqOrder,      \* history: callers that acquired the lock and have not released it, in order
    readSet,       \* history: per caller, the array exactly as it was read (whole-set branch)
                   \* or the rows of the table when the call was made (relational branch)
    stats,         \* per caller: what its last getStatistics returned
    purged,        \* history: number of records physically removed from the store
    readFails,     \* environment: the backend fails reads (network failure, non-OK response)
    writeFails,    \* environment: the backend fails writes
    sweep,         \* the run of validateMailboxesBySource under way, or the last one
    config,        \* the configuration resolved at startup: [useLegacyStorage, databaseUrl, blobToken]
    dbReachable,   \* environment: a connection to the database can be established
    dbInstance,    \* the module's singleton database client: "null" or "db"
    storageMode,   \* this.storageMode: "postgres", "blob" or "file"
    table,         \* the rows of the relational table mailboxes, in the order of insertion
    cursor,        \* per caller: where its relational handler stands: [k, existing]
    twin,          \* a second deployment, on the relational backend, fed the calls of caller 1
    repeats,       \* history: per caller, the call under way repeats its previous call, which returned
    behind         \* history: per caller, the promise its last _acquireWriteLock chained it behind

vars == <<blob, writeLock, previousLock, pc, op, local, result, nextId, clock,
          calls, acqOrder, readSet, stats, purged, readFails, writeFails, sweep,
          config, dbReachable, dbInstance, storageMode, table, cursor, twin, repeats,
          behind>>

\* what the handlers of the record store leave alone
backend == <<readFails, writeFails>>

deployment == <<config, dbReachable, dbInstance, storageMode>>

\* what the handlers of the whole-set branch leave alone
relational == <<table, cursor, twin>>

\* ---------------------------------------------------------------- strings
Rep(ch, n) == [i \in 1..n |-> ch]

Falsy(s) == s = <<>>

Whitespace == {" ", "\t", "\n"}

IsPartChar(ch) == ch \notin Whitespace /\ ch # "@"

\* /^[^\s@]+@[^\s@]+\.[^\s@]+$/.test(s)
EmailRegexTest(s) ==
    \E i \in 2..Len(s) :
        /\ s[i] = "@"
        /\ \A k \in 1..(i-1) : IsPartChar(s[k])
        /\ \E j \in (i+2)..(Len(s)-1) :
              /\ s[j] = "."
              /\ \A k \in (i+1)..Len(s) : IsPartChar(s[k])

EmailA    == <<"a", "@", "x", ".", "y">>
EmailB    == <<"b", "@", "x", ".", "y">>
EmailC    == <<"c", "@", "x", ".", "y">>
BadEmail  == <<"a", "x", ".", "y">>
LongEmail == Rep("a", MaxEmailLen - 3) \o <<"@", "x", ".", "y">>
LongPassword == Rep("p", MaxPasswordLen + 1)

\* ---------------------------------------------------------------- records
NullRecord ==
    [id |-> 0, email |-> <<>>, password |-> <<>>, client_id |-> <<>>,
     refresh_token |-> <<>>, is_active |-> FALSE, source |-> "",
     created_at |-> 0, updated_at |-> 0]

Payload(e, p, c, t, s) ==
    [email |-> e, password |-> p, client_id |-> c, refresh_token |-> t, source |-> s]

NoPayload == Payload(<<>>, <<>>, <<>>, <<>>, "")

Op(kind, data, list, id, ids) ==
    [kind |-> kind, data |-> data, list |-> list, id |-> id, ids |-> ids]

NoOp == Op("none", NoPayload, <<>>, 0, <<>>)

Res(status, error, mailbox, data, added, reactivated, skipped, skippedEmails, deleted, total) ==
    [status |-> status, error |-> error, mailbox |-> mailbox, data |-> data,
     added |-> added, reactivated |-> reactivated, skipped |-> skipped,
     skippedEmails |-> skippedEmails, deleted |-> deleted, total |-> total]

NoRes == Res("none", "", NullRecord, <<>>, 0, 0, 0, <<>>, 0, 0)

ErrRes(e) == Res("error", e, NullRecord, <<>>, 0, 0, 0, <<>>, 0, 0)

NoBlob == [exists |-> FALSE, data |-> <<>>]

\* the object getStatistics returns
Stats(total, active, inactive) ==
    [total |-> total, active |-> active, inactive |-> inactive]

NoStats == Stats(0, 0, 0)

\* no run of validateMailboxesBySource yet
NoSweep ==
    [phase |-> "none", caller |-> 0, source |-> "", ids |-> <<>>, concurrency |-> 0,
     target |-> <<>>, i |-> 0, inflight |-> {}, started |-> {}, resp |-> <<>>,
     results |-> <<>>, checked |-> 0, removed |-> 0, removedEmails |-> <<>>,
     removedIds |-> <<>>, errors |-> <<>>, data |-> <<>>, error |-> ""]

Min(S) == CHOOSE x \in S : \A y \in S : x <= y
Max(S) == CHOOSE x \in S : \A y \in S : x >= y

\* allMailboxes.find(m => m.email === email): index of the first match, 0 if none
FindByEmail(all, email) ==
    LET S == {i \in 1..Len(all) : all[i].email = email}
    IN IF S = {} THEN 0 ELSE Min(S)

\* allMailboxes.find(m => m.id === id): index of the first match, 0 if none
FindById(all, id) ==
    LET S == {i \in 1..Len(all) : all[i].id = id}
    IN IF S = {} THEN 0 ELSE Min(S)

ActiveOf(all) == SelectSeq(all, LAMBDA m : m.is_active # FALSE)

\* ---------------------------------------------------------- the deployment
\* config.useLegacyStorage, config.databaseUrl, config.blobToken: a flag and two
\* strings, "" standing for null (the code tests them for truthiness only)
Config(useLegacyStorage, databaseUrl, blobToken) ==
    [useLegacyStorage |-> useLegacyStorage, databaseUrl |-> databaseUrl,
     blobToken |-> blobToken]

NoUrl == ""
MalformedUrl == "not a connection string"
GoodUrl == "postgresql://user:pw@host.tld/db"

\* neon(databaseUrl) builds a client from the connection string without sending
\* anything: it throws for a string it cannot parse and returns a client otherwise
NeonThrows(url) == url = MalformedUrl

\* createDbConnection: the client, or null without a URL or when neon() throws
CreateDbConnection(cfg) ==
    IF cfg.databaseUrl = NoUrl THEN "null"
    ELSE IF NeonThrows(cfg.databaseUrl) THEN "null" ELSE "db"

\* getDb: the lazily created singleton
GetDb(inst, cfg) == IF inst = "null" THEN CreateDbConnection(cfg) ELSE inst

IsDatabaseAvailable(inst, cfg) == GetDb(inst, cfg) # "null"

LegacyMode(cfg) == IF cfg.blobToken # "" THEN "blob" ELSE "file"

\* _determineStorageMode: the mode chosen and the singleton as the evaluation
\* leaves it (getDb is reached only past the two tests before it)
DetermineStorageMode(cfg, inst) ==
    IF cfg.useLegacyStorage
    THEN [storageMode |-> LegacyMode(cfg), dbInstance |-> inst]
    ELSE IF cfg.databaseUrl # NoUrl
    THEN [storageMode |-> IF IsDatabaseAvailable(inst, cfg) THEN "postgres"
                          ELSE LegacyMode(cfg),
          dbInstance |-> GetDb(inst, cfg)]
    ELSE [storageMode |-> LegacyMode(cfg), dbInstance |-> inst]

\* the cursor of a caller that runs no relational handler
NoCursor == [k |-> 0, existing |-> <<>>]

\* the relational twin before its first call
NoTwin == [calls |-> 0, nextId |-> 0, result |-> NoRes]

\* new MailboxService() under the configuration cfg
Deployed(cfg, reachable) ==
    /\ config = cfg
    /\ dbReachable = reachable
    /\ dbInstance = DetermineStorageMode(cfg, "null").dbInstance
    /\ storageMode = DetermineStorageMode(cfg, "null").storageMode

\* the store, its lock and its callers before the first call
InitStore ==
    /\ blob = NoBlob
    /\ writeLock = 0
    /\ previousLock = [p \in Procs |-> 0]
    /\ pc = [p \in Procs |-> "idle"]
    /\ op = [p \in Procs |-> NoOp]
    /\ local = [p \in Procs |-> <<>>]
    /\ result = [p \in Procs |-> NoRes]
    /\ nextId = 0
    /\ clock = 0
    /\ calls = 0
    /\ acqOrder = <<>>
    /\ readSet = [p \in Procs |-> <<>>]
    /\ stats = [p \in Procs |-> NoStats]
    /\ purged = 0
    /\ readFails = FALSE
    /\ writeFails = FALSE
    /\ sweep = NoSweep
    /\ table = <<>>
    /\ cursor = [p \in Procs |-> NoCursor]
    /\ twin = NoTwin
    /\ repeats = [p \in Procs |-> FALSE]
    /\ behind = [p \in Procs |-> 0]

\* the whole-set deployment of the tests: legacy storage forced, blob credential set
LegacyBlob == Config(TRUE, NoUrl, "token")

Init == InitStore /\ Deployed(LegacyBlob, FALSE)


\* ------------------------------------------------------------- validation
\* addMailbox: the checks before any storage access; "" when the data passes
AddMailboxValidate(data) ==
    IF Falsy(data.email) \/ Falsy(data.password) \/ Falsy(data.client_id)
         \/ Falsy(data.refresh_token) THEN "MissingFields"
    ELSE IF ~EmailRegexTest(data.email) THEN "InvalidEmail"
    ELSE IF Len(data.email) > MaxEmailLen THEN "EmailTooLong"
    ELSE IF Len(data.password) > MaxPasswordLen THEN "PasswordTooLong"
    ELSE IF Len(data.client_id) > MaxClientIdLen THEN "ClientIdTooLong"
    ELSE IF Len(data.refresh_token) > MaxRefreshTokenLen THEN "RefreshTokenTooLong"
    ELSE ""

\* addMailboxesBatch: the checks of one entry, in the order of the loop body
BatchEntryValidate(m) ==
    IF Falsy(m.email) \/ Falsy(m.password) \/ Falsy(m.client_id)
         \/ Falsy(m.refresh_token) THEN "BatchIncomplete"
    ELSE IF Len(m.email) > MaxEmailLen THEN "EmailTooLong"
    ELSE IF Len(m.password) > MaxPasswordLen THEN "PasswordTooLong"
    ELSE IF Len(m.client_id) > MaxClientIdLen THEN "ClientIdTooLong"
    ELSE IF Len(m.refresh_token) > MaxRefreshTokenLen THEN "RefreshTokenTooLong"
    ELSE IF ~EmailRegexTest(m.email) THEN "InvalidEmail"
    ELSE ""

\* mutant: only the first entry of the batch is validated
BatchValidateFirstOnly(list) ==
    IF Len(list) = 0 THEN "BadBatch" ELSE BatchEntryValidate(list[1])

\* addMailboxesBatch: the up-front loop; the error of the first failing entry
BatchValidate(list) ==
    IF Len(list) = 0 THEN "BadBatch"
    ELSE LET bad == {i \in 1..Len(list) : BatchEntryValidate(list[i]) # ""}
         IN IF bad = {} THEN "" ELSE BatchEntryValidate(list[Min(bad)])

\* updateMailbox: the fields of the payload that are copied into `data`
UpdateData(upd) ==
    [email |-> upd.email, password |-> upd.password,
     clientId |-> upd.client_id, refreshToken |-> upd.refresh_token]

UpdateDataIsEmpty(data) ==
    Falsy(data.email) /\ Falsy(data.password) /\ Falsy(data.clientId)
        /\ Falsy(data.refreshToken)

\* ------------------------------------------------------ the computations
NewMailbox(id, data, now) ==
    [id |-> id, email |-> data.email, password |-> data.password,
     client_id |-> data.client_id, refresh_token |-> data.refresh_token,
     is_active |-> TRUE,
     source |-> IF data.source # "" THEN data.source ELSE "manual",
     created_at |-> now, updated_at |-> now]

\* mutant: the reactivating call's source replaces the record's
ReactivateTakesSource(existing, data, now) ==
    [existing EXCEPT
        !.password = data.password,
        !.client_id = data.client_id,
        !.refresh_token = data.refresh_token,
        !.is_active = TRUE,
        !.updated_at = now,
        !.source = IF data.source # "" THEN data.source ELSE "manual"]

\* the assignments to a soft-deleted record found by its e-mail
Reactivate(existing, data, now) ==
    [existing EXCEPT
        !.password = data.password,
        !.client_id = data.client_id,
        !.refresh_token = data.refresh_token,
        !.is_active = TRUE,
        !.updated_at = now,
        !.source = IF existing.source # "" THEN existing.source
                   ELSE IF data.source # "" THEN data.source ELSE "manual"]

\* mutant: a soft-deleted record is not reused, a new record is appended
AddComputeNoReactivate(all, data, id, now) ==
    LET i == FindByEmail(all, data.email)
    IN IF i # 0 /\ all[i].is_active # FALSE
       THEN [err |-> "AlreadyExists", set |-> all, mailbox |-> NullRecord, ids |-> 0]
       ELSE LET m == NewMailbox(id, data, now)
            IN [err |-> "", set |-> Append(all, m), mailbox |-> m, ids |-> 1]

\* addMailbox, the operation under the lock: [err, set, mailbox, ids]
AddCompute(all, data, id, now) ==
    LET i == FindByEmail(all, data.email)
    IN IF i # 0 /\ all[i].is_active # FALSE
       THEN [err |-> "AlreadyExists", set |-> all, mailbox |-> NullRecord, ids |-> 0]
       ELSE IF i # 0 /\ all[i].is_active = FALSE
       THEN LET m == Reactivate(all[i], data, now)
            IN [err |-> "", set |-> [all EXCEPT ![i] = m], mailbox |-> m, ids |-> 0]
       ELSE LET m == NewMailbox(id, data, now)
            IN [err |-> "", set |-> Append(all, m), mailbox |-> m, ids |-> 1]

\* mutant: the map is built from the soft-deleted records only
EmailMapOfInactive(all) ==
    [e \in {all[i].email : i \in {j \in 1..Len(all) : all[j].is_active = FALSE}} |->
        Max({i \in 1..Len(all) : all[i].email = e /\ all[i].is_active = FALSE})]

\* new Map(existingMailboxes.map(m => [m.email, m])): e-mail -> index of the
\* record it refers to; a later entry with the same key replaces an earlier one
EmailMapOf(all) ==
    [e \in {all[i].email : i \in 1..Len(all)} |->
        Max({i \in 1..Len(all) : all[i].email = e})]

\* mutant: a record the loop has added is not entered into the map
RECURSIVE BatchLoopNoMapSet(_, _, _, _, _)
BatchLoopNoMapSet(list, k, st, base, now) ==
    IF k > Len(list) THEN st
    ELSE LET d == list[k]
             has == d.email \in DOMAIN st.map
             cur == IF has THEN st.map[d.email] ELSE 0
         IN IF ~has
            THEN LET m == NewMailbox(base + st.ids + 1, d, now)
                     n == Len(st.set) + 1
                 IN BatchLoopNoMapSet(list, k + 1,
                        [st EXCEPT !.set = Append(st.set, m),
                                   !.added = Append(st.added, n),
                                   !.ids = st.ids + 1],
                        base, now)
            ELSE IF st.set[cur].is_active = FALSE
            THEN BatchLoopNoMapSet(list, k + 1,
                        [st EXCEPT !.set[cur] = Reactivate(st.set[cur], d, now),
                                   !.reactivated = Append(st.reactivated, cur)],
                        base, now)
            ELSE BatchLoopNoMapSet(list, k + 1,
                        [st EXCEPT !.skipped = Append(st.skipped, d.email)],
                        base, now)

\* addMailboxesBatch, the loop over the batch: state after entries k..Len(list)
\* st = [set, map, added, reactivated, skipped, ids]; added/reactivated hold indexes
RECURSIVE BatchLoop(_, _, _, _, _)
BatchLoop(list, k, st, base, now) ==
    IF k > Len(list) THEN st
    ELSE LET d == list[k]
             has == d.email \in DOMAIN st.map
             cur == IF has THEN st.map[d.email] ELSE 0
         IN IF ~has
            THEN LET m == NewMailbox(base + st.ids + 1, d, now)
                     n == Len(st.set) + 1
                 IN BatchLoop(list, k + 1,
                        [st EXCEPT !.set = Append(st.set, m),
                                   !.map = [e \in DOMAIN st.map \cup {d.email} |->
                                               IF e = d.email THEN n ELSE st.map[e]],
                                   !.added = Append(st.added, n),
                                   !.ids = st.ids + 1],
                        base, now)
            ELSE IF st.set[cur].is_active = FALSE
            THEN BatchLoop(list, k + 1,
                        [st EXCEPT !.set[cur] = Reactivate(st.set[cur], d, now),
                                   !.reactivated = Append(st.reactivated, cur)],
                        base, now)
            ELSE BatchLoop(list, k + 1,
                        [st EXCEPT !.skipped = Append(st.skipped, d.email)],
                        base, now)

BatchCompute(all, list, base, now) ==
    BatchLoop(list, 1,
              [set |-> all, map |-> EmailMapOf(all), added |-> <<>>,
               reactivated |-> <<>>, skipped |-> <<>>, ids |-> 0],
              base, now)

\* Object.assign(mailbox, data, { updated_at }) after the field-name conversion
UpdateAssign(mailbox, data, now) ==
    [mailbox EXCEPT
        !.email = IF Falsy(data.email) THEN @ ELSE data.email,
        !.password = IF Falsy(data.password) THEN @ ELSE data.password,
        !.client_id = IF Falsy(data.clientId) THEN @ ELSE data.clientId,
        !.refresh_token = IF Falsy(data.refreshToken) THEN @ ELSE data.refreshToken,
        !.updated_at = now]

SoftDelete(mailbox, now) ==
    [mailbox EXCEPT !.is_active = FALSE, !.updated_at = now]

\* mutant: every id that is found is counted, active or not
RECURSIVE DeleteLoopCountsFound(_, _, _, _)
DeleteLoopCountsFound(ids, k, st, now) ==
    IF k > Len(ids) THEN st
    ELSE LET i == FindById(st.set, ids[k])
         IN IF i # 0
            THEN DeleteLoopCountsFound(ids, k + 1,
                     [set |-> [st.set EXCEPT ![i] = SoftDelete(st.set[i], now)],
                      deleted |-> st.deleted + 1], now)
            ELSE DeleteLoopCountsFound(ids, k + 1, st, now)

\* deleteMailboxesBatch, the loop over ids: [set, deleted] after ids k..Len(ids)
RECURSIVE DeleteLoop(_, _, _, _)
DeleteLoop(ids, k, st, now) ==
    IF k > Len(ids) THEN st
    ELSE LET i == FindById(st.set, ids[k])
         IN IF i # 0 /\ st.set[i].is_active # FALSE
            THEN DeleteLoop(ids, k + 1,
                     [set |-> [st.set EXCEPT ![i] = SoftDelete(st.set[i], now)],
                      deleted |-> st.deleted + 1], now)
            ELSE DeleteLoop(ids, k + 1, st, now)

\* allMailboxes.splice(index, 1)
Splice(all, i) == [k \in 1..(Len(all) - 1) |-> IF k < i THEN all[k] ELSE all[k + 1]]


\* ------------------------------------------------------------ the backend
\* _readMailboxesLegacy: the stored array; readJSONBlob returns null for an absent
\* object and also when the list, the fetch or the parse fails (the error is caught
\* and logged), and null reads as []
ReadMailboxesLegacy == IF blob.exists /\ ~readFails THEN blob.data ELSE <<>>

\* ------------------------------------------------- the relational backend
\* the columns of the table mailboxes that bound the length of their value
EmailColumnLen        == 255
PasswordColumnLen     == 1024
ClientIdColumnLen     == 255
RefreshTokenColumnLen == 2048
SourceColumnLen       == 50

Row(id, email, password, clientId, refreshToken, isActive, source, createdAt, updatedAt) ==
    [id |-> id, email |-> email, password |-> password, clientId |-> clientId,
     refreshToken |-> refreshToken, isActive |-> isActive, source |-> source,
     createdAt |-> createdAt, updatedAt |-> updatedAt]

\* _dbRowToJson
DbRowToJson(row) ==
    [id |-> row.id, email |-> row.email, password |-> row.password,
     client_id |-> row.clientId, refresh_token |-> row.refreshToken,
     is_active |-> row.isActive, source |-> row.source,
     created_at |-> row.createdAt, updated_at |-> row.updatedAt]

\* rows.map(row => this._dbRowToJson(row))
TableToJson(tbl) == [i \in 1..Len(tbl) |-> DbRowToJson(tbl[i])]

\* the row satisfies the varchar(n) columns
FitsColumns(row) ==
    /\ Len(row.email) <= EmailColumnLen
    /\ Len(row.password) <= PasswordColumnLen
    /\ Len(row.clientId) <= ClientIdColumnLen
    /\ Len(row.refreshToken) <= RefreshTokenColumnLen
    /\ Len(row.source) <= SourceColumnLen

\* email ... .unique(): no row other than the one at index i holds this e-mail
EmailFree(tbl, i, email) == \A j \in 1..Len(tbl) : j # i => tbl[j].email # email

\* db.select().from(mailboxes).where(eq(mailboxes.email, email))
SelectByEmail(tbl, email) == SelectSeq(tbl, LAMBDA r : r.email = email)

\* the row where(eq(mailboxes.id, id)) names: its index, 0 if none
RowById(tbl, id) ==
    LET S == {i \in 1..Len(tbl) : tbl[i].id = id}
    IN IF S = {} THEN 0 ELSE Min(S)

\* the row where(and(eq(mailboxes.id, id), eq(mailboxes.isActive, true))) names
ActiveRowById(tbl, id) ==
    LET S == {i \in 1..Len(tbl) : tbl[i].id = id /\ tbl[i].isActive = TRUE}
    IN IF S = {} THEN 0 ELSE Min(S)

\* the database rejects a statement that would leave the row at index i in the
\* table: a second row with its e-mail, or a value longer than its column
Rejected(tbl, i, row) == ~EmailFree(tbl, i, row.email) \/ ~FitsColumns(row)

\* what a relational handler works on: its position, its call, what it returns,
\* its cursor, the table, the ids handed out, the time, whether the database answers
Ctx(at, o, res, cur, tbl, ids, now, up) ==
    [pc |-> at, op |-> o, result |-> res, cursor |-> cur, table |-> tbl,
     nextId |-> ids, now |-> now, up |-> up]

\* the handler throws
Fail(c, e) == [c EXCEPT !.pc = "idle", !.result = ErrRes(e), !.cursor = NoCursor]

\* the handler returns
Return(c, res) ==
    [c EXCEPT !.pc = "idle", !.result = [res EXCEPT !.status = "ok"], !.cursor = NoCursor]

\* db.insert(mailboxes).values({...}).returning(): [err, table, row]
InsertRow(tbl, data, id, now) ==
    LET row == Row(id, data.email, data.password, data.client_id, data.refresh_token,
                   TRUE, IF data.source # "" THEN data.source ELSE "manual", now, now)
    IN IF Rejected(tbl, 0, row)
       THEN [err |-> "DatabaseError", table |-> tbl, row |-> row]
       ELSE [err |-> "", table |-> Append(tbl, row), row |-> row]

\* .set({ password, clientId, refreshToken, isActive: true, updatedAt: new Date() })
ReactivateRow(row, data, now) ==
    [row EXCEPT !.password = data.password, !.clientId = data.client_id,
                !.refreshToken = data.refresh_token, !.isActive = TRUE,
                !.updatedAt = now]

\* addMailbox, relational branch: the select, then the update or the insert
AddMailboxPostgres(c) ==
    LET data == c.op.data
    IN IF ~c.up THEN Fail(c, "DatabaseError")
       ELSE IF c.pc = "select"
       THEN LET existing == SelectByEmail(c.table, data.email)
            IN IF Len(existing) > 0 /\ existing[1].isActive = TRUE
               THEN Fail(c, "AlreadyExists")
               ELSE [c EXCEPT !.pc = "write", !.cursor.existing = existing]
       ELSE IF Len(c.cursor.existing) > 0
       THEN LET i == RowById(c.table, c.cursor.existing[1].id)
            IN IF i = 0 THEN Fail(c, "TypeError")
               ELSE LET row == ReactivateRow(c.table[i], data, c.now)
                    IN Return([c EXCEPT !.table[i] = row],
                              [NoRes EXCEPT !.mailbox = DbRowToJson(row)])
       ELSE LET r == InsertRow(c.table, data, c.nextId + 1, c.now)
            IN IF r.err # "" THEN Fail(c, r.err)
               ELSE Return([c EXCEPT !.table = r.table, !.nextId = @ + 1],
                           [NoRes EXCEPT !.mailbox = DbRowToJson(r.row)])

\* the entry k of the batch is dealt with: the loop goes on or the handler returns
BatchAdvance(c) ==
    IF c.cursor.k = Len(c.op.list) THEN Return(c, c.result)
    ELSE [c EXCEPT !.pc = "select", !.cursor = [k |-> c.cursor.k + 1, existing |-> <<>>]]

\* addMailboxesBatch, relational branch: for each entry the select, then the insert
\* or the update; data holds the added rows followed by the reactivated ones
AddMailboxesBatchPostgres(c) ==
    LET data == c.op.list[c.cursor.k]
        res == c.result
    IN IF ~c.up THEN Fail(c, "DatabaseError")
       ELSE IF c.pc = "select"
       THEN LET existing == SelectByEmail(c.table, data.email)
            IN IF Len(existing) = 0 \/ existing[1].isActive # TRUE
               THEN [c EXCEPT !.pc = "write", !.cursor.existing = existing]
               ELSE BatchAdvance([c EXCEPT !.result.skipped = @ + 1,
                                           !.result.skippedEmails = Append(@, data.email)])
       ELSE IF Len(c.cursor.existing) = 0
       THEN LET r == InsertRow(c.table, data, c.nextId + 1, c.now)
            IN IF r.err # "" THEN Fail(c, r.err)
               ELSE BatchAdvance(
                      [c EXCEPT !.table = r.table, !.nextId = @ + 1,
                                !.result.added = @ + 1,
                                !.result.data =
                                    SubSeq(@, 1, res.added) \o <<DbRowToJson(r.row)>>
                                        \o SubSeq(@, res.added + 1, Len(@))])
       ELSE LET i == RowById(c.table, c.cursor.existing[1].id)
            IN IF i = 0 THEN Fail(c, "TypeError")
               ELSE LET row == ReactivateRow(c.table[i], data, c.now)
                    IN BatchAdvance(
                         [c EXCEPT !.table[i] = row,
                                   !.result.reactivated = @ + 1,
                                   !.result.data = Append(@, DbRowToJson(row))])

\* .set(data) of updateMailbox: the fields supplied and updatedAt
UpdateRow(row, data, now) ==
    [row EXCEPT
        !.email = IF Falsy(data.email) THEN @ ELSE data.email,
        !.password = IF Falsy(data.password) THEN @ ELSE data.password,
        !.clientId = IF Falsy(data.clientId) THEN @ ELSE data.clientId,
        !.refreshToken = IF Falsy(data.refreshToken) THEN @ ELSE data.refreshToken,
        !.updatedAt = now]

\* updateMailbox, relational branch: one update ... returning
UpdateMailboxPostgres(c) ==
    LET i == RowById(c.table, c.op.id)
    IN IF ~c.up THEN Fail(c, "DatabaseError")
       ELSE IF i = 0 THEN Fail(c, "NotFound")
       ELSE LET row == UpdateRow(c.table[i], UpdateData(c.op.data), c.now)
            IN IF Rejected(c.table, i, row) THEN Fail(c, "DatabaseError")
               ELSE Return([c EXCEPT !.table[i] = row],
                           [NoRes EXCEPT !.mailbox = DbRowToJson(row)])

\* .set({ isActive: false, updatedAt: new Date() })
RetireRow(row, now) == [row EXCEPT !.isActive = FALSE, !.updatedAt = now]

\* deleteMailbox, relational branch: one update ... returning
DeleteMailboxPostgres(c) ==
    LET i == RowById(c.table, c.op.id)
    IN IF ~c.up THEN Fail(c, "DatabaseError")
       ELSE IF i = 0 THEN Fail(c, "NotFound")
       ELSE Return([c EXCEPT !.table[i] = RetireRow(c.table[i], c.now)], NoRes)

\* deleteMailboxesBatch, relational branch: one update per id of the list
DeleteMailboxesBatchPostgres(c) ==
    LET i == ActiveRowById(c.table, c.op.ids[c.cursor.k])
        d == IF i = 0 THEN c
             ELSE [c EXCEPT !.table[i] = RetireRow(c.table[i], c.now),
                            !.result.deleted = @ + 1]
    IN IF ~c.up THEN Fail(c, "DatabaseError")
       ELSE IF c.cursor.k = Len(c.op.ids)
       THEN Return(d, [d.result EXCEPT !.total = Len(c.op.ids)])
       ELSE [d EXCEPT !.cursor.k = @ + 1]

\* permanentlyDeleteMailbox, relational branch: one delete ... returning
PermanentlyDeleteMailboxPostgres(c) ==
    LET i == RowById(c.table, c.op.id)
    IN IF ~c.up THEN Fail(c, "DatabaseError")
       ELSE IF i = 0 THEN Fail(c, "NotFound")
       ELSE Return([c EXCEPT !.table = Splice(c.table, i)], NoRes)

\* the relational branch of a handler, from one await to the next
PostgresStep(c) ==
    IF c.op.kind = "addMailbox" THEN AddMailboxPostgres(c)
    ELSE IF c.op.kind = "addMailboxesBatch" THEN AddMailboxesBatchPostgres(c)
    ELSE IF c.op.kind = "updateMailbox" THEN UpdateMailboxPostgres(c)
    ELSE IF c.op.kind = "deleteMailbox" THEN DeleteMailboxPostgres(c)
    ELSE IF c.op.kind = "deleteMailboxesBatch" THEN DeleteMailboxesBatchPostgres(c)
    ELSE PermanentlyDeleteMailboxPostgres(c)

\* what a handler checks before it chooses its branch: the error thrown, "" if none
Precheck(o) ==
    IF o.kind = "addMailbox" THEN AddMailboxValidate(o.data)
    ELSE IF o.kind = "addMailboxesBatch" THEN BatchValidate(o.list)
    ELSE IF o.kind = "updateMailbox"
    THEN (IF UpdateDataIsEmpty(UpdateData(o.data)) THEN "NothingToUpdate" ELSE "")
    ELSE IF o.kind = "deleteMailboxesBatch"
    THEN (IF Len(o.ids) = 0 THEN "MissingIds" ELSE "")
    ELSE ""

\* where the relational branch of a handler starts
PostgresEntry(o) ==
    IF o.kind \in {"addMailbox", "addMailboxesBatch"} THEN "select" ELSE "statement"

EntryCursor(o) ==
    IF o.kind \in {"addMailboxesBatch", "deleteMailboxesBatch"}
    THEN [k |-> 1, existing |-> <<>>] ELSE NoCursor

\* --------------------------------------------------------- the write lock
\* mutant: the new promise is not chained behind the current tail
PreviousLockOfNone(wl) == 0

\* _acquireWriteLock: const previousLock = this.writeLock
PreviousLockOf(wl) == wl

\* mutant: the await of the previous promise is missing
LockReleasedAlways(tok) == TRUE

\* await previousLock returns once that promise is resolved
LockReleased(tok) == tok = 0

\* _acquireWriteLock up to its await: chain a new promise behind the current tail
AcquireWriteLock(p) ==
    /\ previousLock' = [previousLock EXCEPT ![p] = PreviousLockOf(writeLock)]
    /\ writeLock' = p
    /\ acqOrder' = Append(acqOrder, p)
    /\ behind' = [behind EXCEPT ![p] = PreviousLockOf(writeLock)]

\* mutant: releaseLock() is called after the operation, outside any finally
ReleaseLockOnSuccess(p) ==
    IF result'[p].status = "error"
    THEN UNCHANGED <<writeLock, previousLock, acqOrder, behind>>
    ELSE /\ previousLock' = [q \in Procs |-> IF previousLock[q] = p THEN 0 ELSE previousLock[q]]
         /\ writeLock' = IF writeLock = p THEN 0 ELSE writeLock
         /\ acqOrder' = SelectSeq(acqOrder, LAMBDA q : q # p)
         /\ behind' = behind

\* finally { releaseLock() }: p's promise becomes a resolved promise
ReleaseLock(p) ==
    /\ previousLock' = [q \in Procs |-> IF previousLock[q] = p THEN 0 ELSE previousLock[q]]
    /\ writeLock' = IF writeLock = p THEN 0 ELSE writeLock
    /\ acqOrder' = SelectSeq(acqOrder, LAMBDA q : q # p)
    /\ behind' = behind

LockUnchanged == UNCHANGED <<writeLock, previousLock, acqOrder, behind>>

\* mutant: addMailbox reads and writes outside the lock
UsesWriteLockButAdd(kind) ==
    kind \in {"addMailboxesBatch", "updateMailbox", "deleteMailbox", "deleteMailboxesBatch"}

\* the handlers of the whole-set branch that run inside _acquireWriteLock
UsesWriteLock(kind) ==
    kind \in {"addMailbox", "addMailboxesBatch", "updateMailbox", "deleteMailbox",
              "deleteMailboxesBatch"}

\* ids the calls already under way may still draw from uuidv4()
Need(o) ==
    IF o.kind = "addMailbox" THEN 1
    ELSE IF o.kind = "addMailboxesBatch" THEN Len(o.list) ELSE 0

RECURSIVE PendingNeed(_)
PendingNeed(S) ==
    IF S = {} THEN 0
    ELSE LET p == CHOOSE x \in S : TRUE
         IN (IF pc[p] \in {"waitLock", "read"} THEN Need(op[p]) ELSE 0)
                + PendingNeed(S \ {p})

\* n more ids can be drawn without exceeding a budget of cap
IdsLeft(cap, n) == nextId + PendingNeed(Procs) + n <= cap

\* the call o that caller p issues has the arguments of p's previous call, and that
\* call returned normally
Repeats(p, o) == op[p] = o /\ result[p].status = "ok"

\* a call that throws before it touches the lock or the store
Reject(p, o, e) ==
    /\ op' = [op EXCEPT ![p] = o]
    /\ repeats' = [repeats EXCEPT ![p] = Repeats(p, o)]
    /\ result' = [result EXCEPT ![p] = ErrRes(e)]
    /\ readSet' = [readSet EXCEPT ![p] = <<>>]
    /\ UNCHANGED <<blob, pc, local, nextId, clock, stats, purged, backend, deployment, relational, sweep>>
    /\ LockUnchanged

\* a call that goes straight to its read
GoRead(p, o) ==
    /\ op' = [op EXCEPT ![p] = o]
    /\ repeats' = [repeats EXCEPT ![p] = Repeats(p, o)]
    /\ result' = [result EXCEPT ![p] = NoRes]
    /\ readSet' = [readSet EXCEPT ![p] = <<>>]
    /\ pc' = [pc EXCEPT ![p] = "read"]
    /\ UNCHANGED <<blob, local, nextId, clock, stats, purged, backend, deployment, relational, sweep>>
    /\ LockUnchanged

\* a call that enters _acquireWriteLock
Enqueue(p, o) ==
    /\ op' = [op EXCEPT ![p] = o]
    /\ repeats' = [repeats EXCEPT ![p] = Repeats(p, o)]
    /\ result' = [result EXCEPT ![p] = NoRes]
    /\ readSet' = [readSet EXCEPT ![p] = <<>>]
    /\ pc' = [pc EXCEPT ![p] = "waitLock"]
    /\ AcquireWriteLock(p)
    /\ UNCHANGED <<blob, local, nextId, clock, stats, purged, backend, deployment, relational, sweep>>

\* the relational branch of a handler run from await to await until it returns or
\* throws, nothing else touching the table meanwhile
RECURSIVE PostgresRun(_)
PostgresRun(c) == IF c.pc = "idle" THEN c ELSE PostgresRun(PostgresStep(c))

\* a whole call of a handler of a service on the relational backend
PostgresCall(o, tbl, ids, now) ==
    IF Precheck(o) # ""
    THEN Fail(Ctx("idle", o, NoRes, NoCursor, tbl, ids, now, TRUE), Precheck(o))
    ELSE PostgresRun(Ctx(PostgresEntry(o), o, NoRes, EntryCursor(o), tbl, ids, now, TRUE))

\* a call that enters the relational branch of its handler
GoPostgres(p, o) ==
    /\ op' = [op EXCEPT ![p] = o]
    /\ repeats' = [repeats EXCEPT ![p] = Repeats(p, o)]
    /\ result' = [result EXCEPT ![p] = NoRes]
    /\ readSet' = [readSet EXCEPT ![p] = TableToJson(table)]
    /\ pc' = [pc EXCEPT ![p] = PostgresEntry(o)]
    /\ cursor' = [cursor EXCEPT ![p] = EntryCursor(o)]
    /\ UNCHANGED <<blob, local, nextId, clock, stats, purged, backend, deployment,
                   table, twin, sweep>>
    /\ LockUnchanged

\* if (this.storageMode === 'postgres') { ... }, else the whole-set branch, inside
\* _acquireWriteLock or not
Begin(p, o) ==
    IF storageMode = "postgres" THEN GoPostgres(p, o)
    ELSE IF UsesWriteLock(o.kind) THEN Enqueue(p, o) ELSE GoRead(p, o)

\* ------------------------------------------------------------ invocations
addMailbox(p, data) ==
    LET o == Op("addMailbox", data, <<>>, 0, <<>>)
        e == AddMailboxValidate(data)
    IN /\ pc[p] = "idle"
       /\ IF e # "" THEN Reject(p, o, e) ELSE Begin(p, o)

addMailboxesBatch(p, list) ==
    LET o == Op("addMailboxesBatch", NoPayload, list, 0, <<>>)
        e == BatchValidate(list)
    IN /\ pc[p] = "idle"
       /\ IF e # "" THEN Reject(p, o, e) ELSE Begin(p, o)

updateMailbox(p, id, upd) ==
    LET o == Op("updateMailbox", upd, <<>>, id, <<>>)
    IN /\ pc[p] = "idle"
       /\ IF UpdateDataIsEmpty(UpdateData(upd))
          THEN Reject(p, o, "NothingToUpdate")
          ELSE Begin(p, o)

deleteMailbox(p, id) ==
    /\ pc[p] = "idle"
    /\ Begin(p, Op("deleteMailbox", NoPayload, <<>>, id, <<>>))

deleteMailboxesBatch(p, ids) ==
    LET o == Op("deleteMailboxesBatch", NoPayload, <<>>, 0, ids)
    IN /\ pc[p] = "idle"
       /\ IF Len(ids) = 0 THEN Reject(p, o, "MissingIds") ELSE Begin(p, o)

permanentlyDeleteMailbox(p, id) ==
    /\ pc[p] = "idle"
    /\ Begin(p, Op("permanentlyDeleteMailbox", NoPayload, <<>>, id, <<>>))

\* ---------------------------------------------------- steps of a handler
\* await previousLock returns: operation() starts
LockGranted(p) ==
    /\ pc[p] = "waitLock"
    /\ LockReleased(previousLock[p])
    /\ pc' = [pc EXCEPT ![p] = "read"]
    /\ UNCHANGED <<blob, writeLock, previousLock, op, local, result, nextId, clock,
                   calls, acqOrder, behind, readSet, stats, purged, backend, deployment, relational, repeats, sweep>>

\* the operation throws after its read: the call ends, the lock (if held) is released
Throw(p, all, e) ==
    /\ pc' = [pc EXCEPT ![p] = "idle"]
    /\ result' = [result EXCEPT ![p] = ErrRes(e)]
    /\ readSet' = [readSet EXCEPT ![p] = all]
    /\ local' = [local EXCEPT ![p] = <<>>]
    /\ IF UsesWriteLock(op[p].kind) THEN ReleaseLock(p) ELSE LockUnchanged
    /\ UNCHANGED <<blob, op, nextId, clock, calls, stats, purged, backend, deployment, relational, repeats, sweep>>

\* the operation has computed the new array and calls _writeMailboxesLegacy
ToWrite(p, all, set, res, ids) ==
    /\ pc' = [pc EXCEPT ![p] = "del"]
    /\ readSet' = [readSet EXCEPT ![p] = all]
    /\ local' = [local EXCEPT ![p] = set]
    /\ result' = [result EXCEPT ![p] = res]
    /\ nextId' = nextId + ids
    /\ UNCHANGED <<blob, op, clock, calls, stats, purged, backend, deployment, relational, repeats, sweep>>
    /\ LockUnchanged

Pending(mailbox, data, added, reactivated, skipped, skippedEmails, deleted, total) ==
    Res("pending", "", mailbox, data, added, reactivated, skipped, skippedEmails,
        deleted, total)

addMailboxOperation(p) ==
    /\ pc[p] = "read" /\ op[p].kind = "addMailbox"
    /\ LET all == ReadMailboxesLegacy
           r == AddCompute(all, op[p].data, nextId + 1, clock)
       IN IF r.err # "" THEN Throw(p, all, r.err)
          ELSE ToWrite(p, all, r.set,
                       Pending(r.mailbox, <<>>, 0, 0, 0, <<>>, 0, 0), r.ids)

addMailboxesBatchOperation(p) ==
    /\ pc[p] = "read" /\ op[p].kind = "addMailboxesBatch"
    /\ LET all == ReadMailboxesLegacy
           st == BatchCompute(all, op[p].list, nextId, clock)
           data == [k \in 1..(Len(st.added) + Len(st.reactivated)) |->
                      IF k <= Len(st.added) THEN st.set[st.added[k]]
                      ELSE st.set[st.reactivated[k - Len(st.added)]]]
       IN ToWrite(p, all, st.set,
                  Pending(NullRecord, data, Len(st.added), Len(st.reactivated),
                          Len(st.skipped), st.skipped, 0, 0), st.ids)

updateMailboxOperation(p) ==
    /\ pc[p] = "read" /\ op[p].kind = "updateMailbox"
    /\ LET all == ReadMailboxesLegacy
           i == FindById(all, op[p].id)
       IN IF i = 0 THEN Throw(p, all, "NotFound")
          ELSE LET m == UpdateAssign(all[i], UpdateData(op[p].data), clock)
               IN ToWrite(p, all, [all EXCEPT ![i] = m],
                          Pending(m, <<>>, 0, 0, 0, <<>>, 0, 0), 0)

deleteMailboxOperation(p) ==
    /\ pc[p] = "read" /\ op[p].kind = "deleteMailbox"
    /\ LET all == ReadMailboxesLegacy
           i == FindById(all, op[p].id)
       IN IF i = 0 THEN Throw(p, all, "NotFound")
          ELSE ToWrite(p, all, [all EXCEPT ![i] = SoftDelete(all[i], clock)],
                       Pending(NullRecord, <<>>, 0, 0, 0, <<>>, 0, 0), 0)

deleteMailboxesBatchOperation(p) ==
    /\ pc[p] = "read" /\ op[p].kind = "deleteMailboxesBatch"
    /\ LET all == ReadMailboxesLegacy
           st == DeleteLoop(op[p].ids, 1, [set |-> all, deleted |-> 0], clock)
       IN ToWrite(p, all, st.set,
                  Pending(NullRecord, <<>>, 0, 0, 0, <<>>, st.deleted, Len(op[p].ids)), 0)

permanentlyDeleteMailboxOperation(p) ==
    /\ pc[p] = "read" /\ op[p].kind = "permanentlyDeleteMailbox"
    /\ LET all == ReadMailboxesLegacy
           i == FindById(all, op[p].id)
       IN IF i = 0 THEN Throw(p, all, "NotFound")
          ELSE ToWrite(p, all, Splice(all, i),
                       Pending(NullRecord, <<>>, 0, 0, 0, <<>>, 0, 0), 0)

\* the relational branch of caller p's handler runs up to its next await
Statement(p, kind) ==
    /\ pc[p] \in {"select", "write", "statement"}
    /\ op[p].kind = kind
    /\ LET c == PostgresStep(Ctx(pc[p], op[p], result[p], cursor[p], table, nextId,
                                 clock, dbReachable))
       IN /\ pc' = [pc EXCEPT ![p] = c.pc]
          /\ result' = [result EXCEPT ![p] = c.result]
          /\ cursor' = [cursor EXCEPT ![p] = c.cursor]
          /\ table' = c.table
          /\ nextId' = c.nextId
    /\ UNCHANGED <<blob, op, local, clock, calls, readSet, stats, purged, backend,
                   deployment, twin, repeats, sweep>>
    /\ LockUnchanged

addMailboxStatement(p) == Statement(p, "addMailbox")

addMailboxesBatchStatement(p) == Statement(p, "addMailboxesBatch")

updateMailboxStatement(p) == Statement(p, "updateMailbox")

deleteMailboxStatement(p) == Statement(p, "deleteMailbox")

deleteMailboxesBatchStatement(p) == Statement(p, "deleteMailboxesBatch")

permanentlyDeleteMailboxStatement(p) == Statement(p, "permanentlyDeleteMailbox")

\* writeJSONBlob, first half: list the object and delete it; an error of the list
\* or of the del is caught and ignored
WriteDel(p) ==
    /\ pc[p] = "del"
    /\ blob' = IF writeFails THEN blob ELSE NoBlob
    /\ pc' = [pc EXCEPT ![p] = "put"]
    /\ UNCHANGED <<op, local, result, nextId, clock, calls, readSet, stats, purged,
                   backend, deployment, relational, repeats, sweep>>
    /\ LockUnchanged

\* mutant: the error of the put is caught and the handler returns normally
WriteResultSwallowed(fails, res) == [res EXCEPT !.status = "ok"]

\* what the handler returns after await _writeMailboxesLegacy: the error of the
\* put is rethrown by writeJSONBlob and by every handler above it
WriteResult(fails, res) ==
    IF fails THEN ErrRes("WriteFailed") ELSE [res EXCEPT !.status = "ok"]

\* writeJSONBlob, second half: put the new object; the handler returns (or throws)
\* and the lock (if held) is released
WritePut(p) ==
    /\ pc[p] = "put"
    /\ blob' = IF writeFails THEN blob ELSE [exists |-> TRUE, data |-> local[p]]
    /\ pc' = [pc EXCEPT ![p] = "idle"]
    /\ result' = [result EXCEPT ![p] = WriteResult(writeFails, result[p])]
    /\ local' = [local EXCEPT ![p] = <<>>]
    /\ purged' = IF ~writeFails /\ op[p].kind = "permanentlyDeleteMailbox"
                  THEN purged + 1 ELSE purged
    /\ IF UsesWriteLock(op[p].kind) THEN ReleaseLock(p) ELSE LockUnchanged
    /\ UNCHANGED <<op, nextId, clock, calls, readSet, stats, backend, deployment, relational, repeats, sweep>>

\* ------------------------------------------------------------------ reads
\* mutant: inactive records are left out of the total
StatisticsOfActiveOnly(all) ==
    Stats(Len(SelectSeq(all, LAMBDA m : m.is_active # FALSE)),
          Len(SelectSeq(all, LAMBDA m : m.is_active # FALSE)),
          Len(SelectSeq(all, LAMBDA m : m.is_active = FALSE)))

\* getStatistics, whole-set branch: the three counts over the array read
StatisticsOf(all) ==
    Stats(Len(all),
          Len(SelectSeq(all, LAMBDA m : m.is_active # FALSE)),
          Len(SelectSeq(all, LAMBDA m : m.is_active = FALSE)))

\* data.find(m => m.email === email && m.is_active !== false): index, 0 if none
FindActiveByEmail(all, email) ==
    LET S == {i \in 1..Len(all) : all[i].email = email /\ all[i].is_active # FALSE}
    IN IF S = {} THEN 0 ELSE Min(S)

\* a read-only handler: one read of the backend, no lock, the value returned
ReadReturn(p, o, all, res, st) ==
    /\ pc[p] = "idle"
    /\ op' = [op EXCEPT ![p] = o]
    /\ repeats' = [repeats EXCEPT ![p] = Repeats(p, o)]
    /\ readSet' = [readSet EXCEPT ![p] = all]
    /\ result' = [result EXCEPT ![p] = res]
    /\ stats' = [stats EXCEPT ![p] = st]
    /\ UNCHANGED <<blob, pc, local, nextId, clock, purged, backend, deployment, relational, sweep>>
    /\ LockUnchanged

Returned(mailbox, data) == Res("ok", "", mailbox, data, 0, 0, 0, <<>>, 0, 0)

getAllMailboxes(p) ==
    LET all == ReadMailboxesLegacy
    IN ReadReturn(p, Op("getAllMailboxes", NoPayload, <<>>, 0, <<>>), all,
                  Returned(NullRecord, ActiveOf(all)), stats[p])

getMailboxById(p, id) ==
    LET all == ReadMailboxesLegacy
        i == FindById(all, id)
    IN ReadReturn(p, Op("getMailboxById", NoPayload, <<>>, id, <<>>), all,
                  Returned(IF i = 0 THEN NullRecord ELSE all[i], <<>>), stats[p])

getMailboxByEmail(p, email) ==
    LET all == ReadMailboxesLegacy
        i == FindActiveByEmail(all, email)
    IN ReadReturn(p, Op("getMailboxByEmail", Payload(email, <<>>, <<>>, <<>>, ""),
                        <<>>, 0, <<>>), all,
                  Returned(IF i = 0 THEN NullRecord ELSE all[i], <<>>), stats[p])

getStatistics(p) ==
    LET all == ReadMailboxesLegacy
    IN ReadReturn(p, Op("getStatistics", NoPayload, <<>>, 0, <<>>), all,
                  Returned(NullRecord, <<>>), StatisticsOf(all))

\* ------------------------------------------------------------------ sweep
\* what the external mail API answers to one probe: fetch throws ("network"), or
\* a response with a status, a JSON or non-JSON content type, and server-supplied
\* text (error message, content-type header) that may contain "HTTP 500"
Response(kind, status, says500) == [kind |-> kind, status |-> status, says500 |-> says500]

NoResponse == Response("none", 0, FALSE)

\* ProxyService.request seen from its caller: returns data, or throws an error with
\* an optional status property (0: none) and a message; `mentions` tells whether
\* the message includes 'HTTP 500'
ProxyRequest(r) ==
    IF r.kind = "network"
    THEN [ok |-> FALSE, status |-> 0, mentions |-> FALSE]
    ELSE IF r.status < 200 \/ r.status > 299
    THEN [ok |-> FALSE, status |-> r.status,
          mentions |-> (r.status = 500 \/ r.says500)]
    ELSE IF r.kind # "json"
    THEN [ok |-> FALSE, status |-> 0, mentions |-> r.says500]
    ELSE [ok |-> TRUE, status |-> 0, mentions |-> FALSE]

\* checkMailbox: the class of one probe
CheckMailbox(r) ==
    LET e == ProxyRequest(r)
        status == IF e.status # 0 THEN e.status ELSE IF e.mentions THEN 500 ELSE 0
    IN IF e.ok THEN "valid" ELSE IF status = 500 THEN "invalid" ELSE "error"

\* mutant: every remaining target is probed at once
SliceAll(i, c, n) == (i + 1)..n

\* target.slice(i, i + concurrency): the indexes (from 1) of the batch after i targets
SliceBatch(i, c, n) == (i + 1)..Min({i + c, n})

\* the filter of validateMailboxesBySource over the active records
TargetOf(all, ids, source) ==
    SelectSeq(ActiveOf(all),
              LAMBDA m : /\ (source = "" \/ m.source = source)
                         /\ (Len(ids) = 0 \/ \E j \in 1..Len(ids) : ids[j] = m.id))

\* mutant: a probe that failed otherwise is counted as checked
TallyOneLenient(sw, k) ==
    LET m == sw.target[k]
    IN IF sw.results[k] \in {"valid", "error"} THEN [sw EXCEPT !.checked = @ + 1]
       ELSE IF sw.results[k] = "invalid"
       THEN [sw EXCEPT !.removedIds = Append(@, m.id),
                       !.removedEmails = Append(@, m.email),
                       !.removed = @ + 1]
       ELSE sw

\* the body of the loop over the results of a batch
TallyOne(sw, k) ==
    LET m == sw.target[k]
    IN IF sw.results[k] = "valid" THEN [sw EXCEPT !.checked = @ + 1]
       ELSE IF sw.results[k] = "invalid"
       THEN [sw EXCEPT !.removedIds = Append(@, m.id),
                       !.removedEmails = Append(@, m.email),
                       !.removed = @ + 1]
       ELSE IF sw.results[k] = "error"
       THEN [sw EXCEPT !.errors = Append(@, m.email)]
       ELSE sw

\* for (const result of results): the results k..last of the batch, in order
RECURSIVE Tally(_, _, _)
Tally(sw, k, last) ==
    IF k > last THEN sw ELSE Tally(TallyOne(sw, k), k + 1, last)

SweepUnchanged ==
    UNCHANGED <<blob, writeLock, previousLock, pc, op, local, result, nextId, clock,
                calls, acqOrder, behind, readSet, stats, purged, backend, deployment, relational, repeats>>

\* validateMailboxesBySource up to its first Promise.all: the active records are
\* read and filtered, and the probes of the first batch are started
validateMailboxesBySource(p, ids, source, concurrency) ==
    LET target == TargetOf(ReadMailboxesLegacy, ids, source)
        n == Len(target)
        batch == SliceBatch(0, concurrency, n)
    IN /\ pc[p] = "idle"
       /\ sweep.phase \in {"none", "done"}
       /\ op' = [op EXCEPT ![p] = Op("validateMailboxesBySource", NoPayload, <<>>, 0, ids)]
       /\ repeats' = [repeats EXCEPT ![p] = FALSE]
       /\ result' = [result EXCEPT ![p] = NoRes]
       /\ readSet' = [readSet EXCEPT ![p] = ReadMailboxesLegacy]
       /\ sweep' = [NoSweep EXCEPT
                       !.phase = IF n = 0 THEN "final" ELSE "probing",
                       !.caller = p, !.source = source, !.ids = ids,
                       !.concurrency = concurrency, !.target = target,
                       !.inflight = batch, !.started = batch,
                       !.resp = [k \in 1..n |-> NoResponse],
                       !.results = [k \in 1..n |-> "none"]]
       /\ UNCHANGED <<blob, pc, local, nextId, clock, stats, purged, backend, deployment, relational>>
       /\ LockUnchanged

\* one outstanding probe returns or throws
ProbeReturns(k, r) ==
    /\ sweep.phase = "probing"
    /\ k \in sweep.inflight
    /\ sweep' = [sweep EXCEPT !.inflight = @ \ {k},
                              !.resp[k] = r,
                              !.results[k] = CheckMailbox(r)]
    /\ SweepUnchanged

\* Promise.all of the batch has resolved: the results are tallied, then the next
\* batch is started or the loop ends
SweepBatchDone ==
    /\ sweep.phase = "probing"
    /\ sweep.inflight = {}
    /\ LET n == Len(sweep.target)
           last == Min({sweep.i + sweep.concurrency, n})
           sw == Tally(sweep, sweep.i + 1, last)
           i == sweep.i + sweep.concurrency
           batch == SliceBatch(i, sweep.concurrency, n)
       IN sweep' = IF i < n
                   THEN [sw EXCEPT !.i = i, !.inflight = batch,
                                   !.started = @ \cup batch]
                   ELSE [sw EXCEPT !.i = i,
                                   !.phase = IF Len(sw.removedIds) > 0
                                             THEN "retire" ELSE "final"]
    /\ SweepUnchanged

\* await this.deleteMailboxesBatch(removedIds): the call is made
SweepRetire ==
    /\ sweep.phase = "retire"
    /\ op[sweep.caller].kind = "validateMailboxesBySource"
    /\ deleteMailboxesBatch(sweep.caller, sweep.removedIds)
    /\ UNCHANGED calls

\* await this.deleteMailboxesBatch(removedIds): the call has returned or thrown
SweepRetired ==
    /\ sweep.phase = "retire"
    /\ op[sweep.caller].kind = "deleteMailboxesBatch"
    /\ pc[sweep.caller] = "idle"
    /\ sweep' = IF result[sweep.caller].status = "error"
                THEN [sweep EXCEPT !.phase = "done", !.error = result[sweep.caller].error]
                ELSE [sweep EXCEPT !.phase = "final"]
    /\ SweepUnchanged

\* const remaining = await this.getAllMailboxes(); return { ... }
SweepReturn ==
    /\ sweep.phase = "final"
    /\ sweep' = [sweep EXCEPT !.phase = "done",
                              !.data = ActiveOf(ReadMailboxesLegacy)]
    /\ SweepUnchanged

\* the backend starts or stops failing reads or writes
BackendTurns(r, w) ==
    /\ <<r, w>> # <<readFails, writeFails>>
    /\ readFails' = r
    /\ writeFails' = w
    /\ UNCHANGED <<blob, writeLock, previousLock, pc, op, local, result, nextId, clock,
                   calls, acqOrder, behind, readSet, stats, purged, sweep, deployment, relational,
                   repeats>>

\* time passes
Tick ==
    /\ clock < MaxClock
    /\ clock' = clock + 1
    /\ UNCHANGED <<blob, writeLock, previousLock, pc, op, local, result, nextId,
                   calls, acqOrder, behind, readSet, stats, purged, backend, deployment, relational, repeats, sweep>>

Step(p) ==
    \/ LockGranted(p)
    \/ addMailboxOperation(p)
    \/ addMailboxesBatchOperation(p)
    \/ updateMailboxOperation(p)
    \/ deleteMailboxOperation(p)
    \/ deleteMailboxesBatchOperation(p)
    \/ permanentlyDeleteMailboxOperation(p)
    \/ WriteDel(p)
    \/ WritePut(p)

\* ------------------------------------------------------------- the inputs
Pw1 == <<"p", "1">>
Pw2 == <<"p", "2">>
Cid1 == <<"c", "1">>
Cid2 == <<"c", "2">>
Tok1 == <<"t", "1">>
Tok2 == <<"t", "2">>

SeqIds == 1..MaxSeqId

\* concurrent callers: three mailboxes, one set of credentials
ConcAdds == {Payload(e, Pw1, Cid1, Tok1, "") : e \in {EmailA, EmailB, EmailC}}
ConcBatches == {<<Payload(EmailA, Pw1, Cid1, Tok1, ""), Payload(EmailB, Pw1, Cid1, Tok1, "")>>}
ConcUpdates == {Payload(<<>>, Pw2, <<>>, <<>>, "")}
ConcIds == {1}

\* one more call is issued, out of a budget of n
Issue(n) == calls < n /\ calls' = calls + 1

\* callers are interchangeable: they are numbered in the order of their first call
InOrder(p) == \A q \in 1..(p - 1) : op[q].kind # "none"

Next ==
    \E p \in Procs :
        \/ Issue(MaxCalls) /\ InOrder(p) /\ IdsLeft(MaxId, 1)
              /\ \E d \in ConcAdds : addMailbox(p, d)
        \/ Issue(MaxCalls) /\ InOrder(p)
              /\ \E l \in ConcBatches : IdsLeft(MaxId, Len(l)) /\ addMailboxesBatch(p, l)
        \/ Issue(MaxCalls) /\ InOrder(p)
              /\ \E i \in ConcIds, u \in ConcUpdates : updateMailbox(p, i, u)
        \/ Issue(MaxCalls) /\ InOrder(p) /\ \E i \in ConcIds : deleteMailbox(p, i)
        \/ Issue(MaxCalls) /\ InOrder(p) /\ \E i \in ConcIds : deleteMailboxesBatch(p, <<i>>)
        \/ Issue(MaxCalls) /\ InOrder(p)
              /\ \E i \in ConcIds : permanentlyDeleteMailbox(p, i)
        \/ Step(p)

Spec == Init /\ [][Next]_vars


\* a single caller issuing one call after another, with the full range of inputs
A1 == Payload(EmailA, Pw1, Cid1, Tok1, "")
A2 == Payload(EmailA, Pw2, Cid2, Tok2, "purchase")
B1 == Payload(EmailB, Pw1, Cid1, Tok1, "")
BadFormat == Payload(BadEmail, Pw1, Cid1, Tok1, "")
NoPassword == Payload(EmailB, <<>>, Cid1, Tok1, "")
TooLongEmail == Payload(LongEmail, Pw1, Cid1, Tok1, "")
TooLongPassword == Payload(EmailB, LongPassword, Cid1, Tok1, "")

Malformed == {BadFormat, NoPassword, TooLongEmail, TooLongPassword}

SeqAdds == {A1, A2, B1} \cup Malformed
SeqBatches ==
    {<<x>> : x \in {A1, A2, B1}}
        \cup {<<x, y>> : x, y \in {A1, B1}}
        \cup {<<x, A1>> : x \in Malformed}
        \cup {<<B1, x>> : x \in Malformed}
SeqUpdates ==
    {Payload(<<>>, Pw2, <<>>, <<>>, ""), Payload(EmailA, <<>>, <<>>, <<>>, ""),
     Payload(EmailB, <<>>, <<>>, <<>>, ""), Payload(<<>>, <<>>, Cid2, Tok2, ""),
     NoPayload}
SeqIdLists == {<<>>, <<1>>, <<1, 2>>, <<2, 2>>}

\* the ids a call of the single caller draws from the store as it stands
AddDraws(d) ==
    IF AddMailboxValidate(d) = ""
    THEN AddCompute(ReadMailboxesLegacy, d, 0, clock).ids ELSE 0

BatchDraws(l) ==
    IF BatchValidate(l) = ""
    THEN BatchCompute(ReadMailboxesLegacy, l, 0, clock).ids ELSE 0

NextSeq ==
    \/ Issue(MaxSeqCalls)
          /\ \E d \in SeqAdds : IdsLeft(MaxSeqId, AddDraws(d)) /\ addMailbox(1, d)
    \/ Issue(MaxSeqCalls)
          /\ \E l \in SeqBatches : IdsLeft(MaxSeqId, BatchDraws(l)) /\ addMailboxesBatch(1, l)
    \/ Issue(MaxSeqCalls) /\ \E i \in SeqIds, u \in SeqUpdates : updateMailbox(1, i, u)
    \/ Issue(MaxSeqCalls) /\ \E i \in SeqIds : deleteMailbox(1, i)
    \/ Issue(MaxSeqCalls) /\ \E l \in SeqIdLists : deleteMailboxesBatch(1, l)
    \/ Issue(MaxSeqCalls) /\ \E i \in SeqIds : permanentlyDeleteMailbox(1, i)
    \/ Step(1)
    \/ Tick

SpecSeq == Init /\ [][NextSeq]_vars


\* a single caller that also updates with values no add would accept and asks for
\* the statistics
AtLimit ==
    Payload(Rep("a", MaxEmailLen - 4) \o <<"@", "x", ".", "y">>, Rep("p", MaxPasswordLen),
            Cid1, Tok1, "")
ApiAdds == {A1, A2, AtLimit, TooLongEmail, TooLongPassword}
ApiBatches == {<<A1, B1>>, <<AtLimit>>}
ApiUpdates ==
    {Payload(<<>>, Pw2, <<>>, <<>>, ""), Payload(<<>>, LongPassword, <<>>, <<>>, ""),
     Payload(BadEmail, <<>>, <<>>, <<>>, "")}
ApiIdLists == {<<1>>, <<2, 1>>}

NextApi ==
    \/ Issue(MaxSeqCalls)
          /\ \E d \in ApiAdds : IdsLeft(MaxSeqId, AddDraws(d)) /\ addMailbox(1, d)
    \/ Issue(MaxSeqCalls)
          /\ \E l \in ApiBatches : IdsLeft(MaxSeqId, BatchDraws(l)) /\ addMailboxesBatch(1, l)
    \/ Issue(MaxSeqCalls) /\ \E i \in SeqIds, u \in ApiUpdates : updateMailbox(1, i, u)
    \/ Issue(MaxSeqCalls) /\ \E i \in SeqIds : deleteMailbox(1, i)
    \/ Issue(MaxSeqCalls) /\ \E l \in ApiIdLists : deleteMailboxesBatch(1, l)
    \/ Issue(MaxSeqCalls) /\ \E i \in SeqIds : permanentlyDeleteMailbox(1, i)
    \/ Issue(MaxSeqCalls) /\ getStatistics(1)
    \/ Step(1)

SpecApi == Init /\ [][NextApi]_vars


\* a single caller that stocks the store and sweeps it; the external mail API
\* answers each probe as it likes
SweepStock ==
    <<Payload(EmailA, Pw1, Cid1, Tok1, "purchase"),
      Payload(EmailB, Pw1, Cid1, Tok1, "purchase"),
      Payload(EmailC, Pw1, Cid1, Tok1, "")>>
SweepIdLists == {<<>>, <<1, 3>>}
SweepSources == {"purchase", ""}
SweepConcurrencies == {1, 2}

Alive == Response("json", 200, FALSE)
Dead == Response("json", 500, FALSE)
Busy == Response("json", 503, FALSE)
Unreachable == Response("network", 0, FALSE)
NotJson == Response("html", 200, FALSE)
NotJsonSays500 == Response("html", 200, TRUE)
ProbeResponses == {Alive, Dead, Busy, Unreachable, NotJson, NotJsonSays500}

\* no run of validateMailboxesBySource is under way
NoSweepRunning == sweep.phase \in {"none", "done"}

SweepStep ==
    \/ \E k \in 1..MaxId, r \in ProbeResponses : ProbeReturns(k, r)
    \/ SweepBatchDone
    \/ SweepRetire
    \/ SweepRetired
    \/ SweepReturn

\* the steps of the two store handlers a sweeping caller runs
SweepStoreStep ==
    \/ LockGranted(1)
    \/ addMailboxesBatchOperation(1)
    \/ deleteMailboxesBatchOperation(1)
    \/ WriteDel(1)
    \/ WritePut(1)

NextSweep ==
    \/ Issue(MaxSweepCalls) /\ NoSweepRunning
          /\ IdsLeft(MaxId, BatchDraws(SweepStock)) /\ addMailboxesBatch(1, SweepStock)
    \/ Issue(MaxSweepCalls)
          /\ \E ids \in SweepIdLists, s \in SweepSources, c \in SweepConcurrencies :
                validateMailboxesBySource(1, ids, s, c)
    \/ SweepStep
    \/ SweepStoreStep

SpecSweep == Init /\ [][NextSweep]_vars


\* callers that read while others add and soft-delete under the lock
ReadStoreStep(p) ==
    \/ LockGranted(p)
    \/ addMailboxOperation(p)
    \/ deleteMailboxOperation(p)
    \/ WriteDel(p)
    \/ WritePut(p)

NextRead ==
    \E p \in Procs :
        \/ Issue(MaxCalls) /\ InOrder(p) /\ IdsLeft(MaxId, 1)
              /\ \E d \in ConcAdds : addMailbox(p, d)
        \/ Issue(MaxCalls) /\ InOrder(p) /\ \E i \in ConcIds : deleteMailbox(p, i)
        \/ Issue(MaxCalls) /\ InOrder(p) /\ getAllMailboxes(p)
        \/ Issue(MaxCalls) /\ InOrder(p) /\ \E i \in ConcIds : getMailboxById(p, i)
        \/ Issue(MaxCalls) /\ InOrder(p) /\ getMailboxByEmail(p, EmailA)
        \/ Issue(MaxCalls) /\ InOrder(p) /\ getStatistics(p)
        \/ ReadStoreStep(p)

SpecRead == Init /\ [][NextRead]_vars


\* a single caller against a backend whose reads and writes may fail
FaultUpdates == {Payload(<<>>, Pw2, <<>>, <<>>, "")}

NextFault ==
    \/ Issue(MaxSweepCalls) /\ NoSweepRunning
          /\ \E d \in {A1, B1} : IdsLeft(MaxSeqId, AddDraws(d)) /\ addMailbox(1, d)
    \/ Issue(MaxSweepCalls) /\ NoSweepRunning
          /\ \E l \in {<<A1, B1>>} : IdsLeft(MaxSeqId, BatchDraws(l)) /\ addMailboxesBatch(1, l)
    \/ Issue(MaxSweepCalls) /\ NoSweepRunning
          /\ \E i \in ConcIds, u \in FaultUpdates : updateMailbox(1, i, u)
    \/ Issue(MaxSweepCalls) /\ NoSweepRunning /\ \E i \in ConcIds : deleteMailbox(1, i)
    \/ Issue(MaxSweepCalls) /\ NoSweepRunning
          /\ \E i \in ConcIds : deleteMailboxesBatch(1, <<i>>)
    \/ Issue(MaxSweepCalls) /\ NoSweepRunning
          /\ \E i \in ConcIds : permanentlyDeleteMailbox(1, i)
    \/ Issue(MaxSweepCalls) /\ validateMailboxesBySource(1, <<>>, "", 2)
    \/ \E k \in 1..MaxSeqId, r \in {Alive, Dead} : ProbeReturns(k, r)
    \/ SweepBatchDone
    \/ SweepRetire
    \/ SweepRetired
    \/ SweepReturn
    \/ Step(1)
    \/ \E r, w \in BOOLEAN : BackendTurns(r, w)

SpecFault == Init /\ [][NextFault]_vars


\* a service constructed under any configuration, whether or not the database can
\* be reached, and then used by one caller
Urls == {NoUrl, MalformedUrl, GoodUrl}

Configs == {Config(f, u, b) : f \in BOOLEAN, u \in Urls, b \in {"", "token"}}

\* only a database named by a connection string can be reached
InitMode ==
    /\ InitStore
    /\ \E cfg \in Configs, r \in BOOLEAN :
          (r => cfg.databaseUrl = GoodUrl) /\ Deployed(cfg, r)

\* _determineStorageMode is evaluated once more
determineStorageMode ==
    /\ storageMode' = DetermineStorageMode(config, dbInstance).storageMode
    /\ dbInstance' = DetermineStorageMode(config, dbInstance).dbInstance
    /\ UNCHANGED <<blob, writeLock, previousLock, pc, op, local, result, nextId, clock,
                   calls, acqOrder, behind, readSet, stats, purged, backend, sweep, config,
                   dbReachable, relational, repeats>>

ModeStep ==
    \/ LockGranted(1)
    \/ addMailboxOperation(1)
    \/ deleteMailboxOperation(1)
    \/ WriteDel(1)
    \/ WritePut(1)
    \/ addMailboxStatement(1)
    \/ deleteMailboxStatement(1)

NextMode ==
    \/ Issue(MaxSeqCalls) /\ \E d \in {A1, B1} : IdsLeft(MaxSeqId, 1) /\ addMailbox(1, d)
    \/ Issue(MaxSeqCalls) /\ \E i \in SeqIds : deleteMailbox(1, i)
    \/ determineStorageMode
    \/ ModeStep

SpecMode == InitMode /\ [][NextMode]_vars


\* a single caller of a service on a whole-set backend or on the relational one
RelationalConfig == Config(FALSE, GoodUrl, "token")

InitEither ==
    /\ InitStore
    /\ \E cfg \in {LegacyBlob, RelationalConfig} : Deployed(cfg, TRUE)

\* the records of the store in use
Stored == IF storageMode = "postgres" THEN TableToJson(table) ELSE ReadMailboxesLegacy

\* the e-mails of a batch that have no record in the store
NewEmails(l) ==
    {l[k].email : k \in 1..Len(l)} \ {Stored[i].email : i \in 1..Len(Stored)}

EitherAdds == {A1, A2, B1}
EitherBatches == {<<A1>>, <<A1, B1>>, <<A1, A1>>, <<A2, A1>>, <<B1, A2>>, <<B1, A1, B1>>}
EitherUpdates == {Payload(<<>>, Pw2, <<>>, <<>>, ""), Payload(EmailB, <<>>, <<>>, <<>>, "")}
EitherIdLists == {<<1>>, <<2, 1>>}

\* the steps of the relational branches of caller p
StatementStep(p) ==
    \/ addMailboxStatement(p)
    \/ addMailboxesBatchStatement(p)
    \/ updateMailboxStatement(p)
    \/ deleteMailboxStatement(p)
    \/ deleteMailboxesBatchStatement(p)
    \/ permanentlyDeleteMailboxStatement(p)

NextEither ==
    \/ Issue(MaxSeqCalls)
          /\ \E d \in EitherAdds :
                IdsLeft(MaxSeqId, Cardinality(NewEmails(<<d>>))) /\ addMailbox(1, d)
    \/ Issue(MaxSeqCalls)
          /\ \E l \in EitherBatches :
                IdsLeft(MaxSeqId, Cardinality(NewEmails(l))) /\ addMailboxesBatch(1, l)
    \/ Issue(MaxSeqCalls) /\ \E i \in SeqIds, u \in EitherUpdates : updateMailbox(1, i, u)
    \/ Issue(MaxSeqCalls) /\ \E i \in SeqIds : deleteMailbox(1, i)
    \/ Issue(MaxSeqCalls) /\ \E l \in EitherIdLists : deleteMailboxesBatch(1, l)
    \/ Issue(MaxSeqCalls) /\ \E i \in SeqIds : permanentlyDeleteMailbox(1, i)
    \/ Step(1)
    \/ StatementStep(1)
    \/ Tick

SpecEither == InitEither /\ [][NextEither]_vars


\* two deployments fed the same calls one after another: the service of caller 1 on
\* the whole-set backend and its twin on the relational backend, whose table is
\* `table`; the twin makes each call once caller 1 has issued it
TwinCall ==
    /\ twin.calls < calls
    /\ LET c == PostgresCall(op[1], table, twin.nextId, clock)
       IN /\ table' = c.table
          /\ twin' = [calls |-> calls, nextId |-> c.nextId, result |-> c.result]
    /\ UNCHANGED <<blob, writeLock, previousLock, pc, op, local, result, nextId, clock,
                   calls, acqOrder, behind, readSet, stats, purged, backend, deployment, cursor,
                   repeats, sweep>>

\* the twin has made every call issued so far
TwinIdle == twin.calls = calls

LongSource == "a-provenance-tag-of-more-than-fifty-characters-in-all"

ALong == Payload(EmailA, Pw1, Cid1, Tok1, LongSource)

TwinAdds == {A1, A2, B1, ALong, BadFormat}
TwinBatches == {<<A1, B1>>, <<A2, A1>>, <<B1, NoPassword>>}
TwinUpdates ==
    {Payload(<<>>, Pw2, <<>>, <<>>, ""), Payload(EmailB, <<>>, <<>>, <<>>, ""),
     Payload(<<>>, LongPassword, <<>>, <<>>, ""), NoPayload}
TwinIdLists == {<<>>, <<1>>, <<2, 1>>}

NextTwin ==
    \/ Issue(MaxSeqCalls) /\ TwinIdle
          /\ \E d \in TwinAdds : IdsLeft(MaxSeqId, AddDraws(d)) /\ addMailbox(1, d)
    \/ Issue(MaxSeqCalls) /\ TwinIdle
          /\ \E l \in TwinBatches : IdsLeft(MaxSeqId, BatchDraws(l)) /\ addMailboxesBatch(1, l)
    \/ Issue(MaxSeqCalls) /\ TwinIdle
          /\ \E i \in SeqIds, u \in TwinUpdates : updateMailbox(1, i, u)
    \/ Issue(MaxSeqCalls) /\ TwinIdle /\ \E i \in SeqIds : deleteMailbox(1, i)
    \/ Issue(MaxSeqCalls) /\ TwinIdle /\ \E l \in TwinIdLists : deleteMailboxesBatch(1, l)
    \/ Issue(MaxSeqCalls) /\ TwinIdle /\ \E i \in SeqIds : permanentlyDeleteMailbox(1, i)
    \/ Step(1)
    \/ TwinCall

SpecTwin == Init /\ [][NextTwin]_vars


\* a single caller that stocks the store and sweeps it, under the scheduling of the
\* program: the event loop runs every continuation that is ready, and the external
\* mail API answers every probe but the one of the first target, which it may
\* leave without an answer for ever (fetch is given no timeout and no abort signal)
StuckStep ==
    \/ SweepBatchDone
    \/ SweepRetire
    \/ SweepRetired
    \/ SweepReturn
    \/ SweepStoreStep

\* the external mail API answers the probe of target k
Answered(k) == \E r \in {Alive, Dead} : ProbeReturns(k, r)

NextStuck ==
    \/ Issue(MaxSweepCalls) /\ NoSweepRunning
          /\ IdsLeft(MaxId, BatchDraws(SweepStock)) /\ addMailboxesBatch(1, SweepStock)
    \/ Issue(MaxSweepCalls)
          /\ \E c \in SweepConcurrencies : validateMailboxesBySource(1, <<>>, "", c)
    \/ \E k \in 1..MaxId : Answered(k)
    \/ StuckStep

SpecStuck ==
    /\ Init
    /\ [][NextStuck]_vars
    /\ WF_vars(StuckStep)
    /\ \A k \in 2..MaxId : WF_vars(Answered(k))


\* callers that add mailboxes concurrently to a service on a whole-set backend or
\* on the relational one
RaceStep(p) ==
    \/ LockGranted(p)
    \/ addMailboxOperation(p)
    \/ WriteDel(p)
    \/ WritePut(p)
    \/ addMailboxStatement(p)

NextRace ==
    \E p \in Procs :
        \/ Issue(MaxCalls) /\ InOrder(p) /\ \E d \in EitherAdds : addMailbox(p, d)
        \/ RaceStep(p)

SpecRace == InitEither /\ [][NextRace]_vars


\* concurrent callers that add and soft-delete against a backend whose writes may
\* fail, under the scheduling of the program: the event loop runs every
\* continuation that is ready, so no handler that can take a step waits for ever
LockStep(p) ==
    \/ LockGranted(p)
    \/ addMailboxOperation(p)
    \/ deleteMailboxOperation(p)
    \/ WriteDel(p)
    \/ WritePut(p)

NextLock ==
    \/ \E p \in Procs :
          \/ Issue(MaxCalls) /\ InOrder(p) /\ IdsLeft(MaxId, 1)
                /\ \E d \in {A1, B1} : addMailbox(p, d)
          \/ Issue(MaxCalls) /\ InOrder(p) /\ \E i \in ConcIds : deleteMailbox(p, i)
          \/ LockStep(p)
    \/ \E w \in BOOLEAN : BackendTurns(readFails, w)

SpecLock == Init /\ [][NextLock]_vars /\ \A p \in Procs : WF_vars(LockStep(p))


\* a caller that stocks the store and sweeps it while a second caller updates,
\* soft-deletes, physically deletes and adds again the records the sweep targets
MeddleStock ==
    <<Payload(EmailA, Pw1, Cid1, Tok1, "purchase"),
      Payload(EmailB, Pw1, Cid1, Tok1, "purchase")>>

NextMeddle ==
    \/ Issue(MaxSeqCalls) /\ NoSweepRunning /\ op[1].kind = "none"
          /\ addMailboxesBatch(1, MeddleStock)
    \/ Issue(MaxSeqCalls) /\ op[1].kind = "addMailboxesBatch"
          /\ validateMailboxesBySource(1, <<>>, "purchase", 2)
    \/ Issue(MaxSeqCalls) /\ InOrder(2) /\ \E u \in ConcUpdates : updateMailbox(2, 1, u)
    \/ Issue(MaxSeqCalls) /\ InOrder(2) /\ deleteMailbox(2, 1)
    \/ Issue(MaxSeqCalls) /\ InOrder(2) /\ permanentlyDeleteMailbox(2, 1)
    \/ Issue(MaxSeqCalls) /\ InOrder(2) /\ addMailbox(2, A2)
    \/ \E k \in 1..MaxSeqId, r \in {Alive, Dead} : ProbeReturns(k, r)
    \/ SweepBatchDone
    \/ SweepRetire
    \/ SweepRetired
    \/ SweepReturn
    \/ \E p \in {1, 2} : Step(p)

SpecMeddle == Init /\ [][NextMeddle]_vars


\* a single caller against a backend that serves every read and whose writes
\* start and stop failing at any moment, between the two halves of a write included
NextWriteFault ==
    \/ Issue(MaxSeqCalls)
          /\ \E d \in {A1, B1} : IdsLeft(MaxSeqId, AddDraws(d)) /\ addMailbox(1, d)
    \/ Issue(MaxSeqCalls) /\ \E i \in SeqIds, u \in FaultUpdates : updateMailbox(1, i, u)
    \/ Issue(MaxSeqCalls) /\ \E i \in SeqIds : deleteMailbox(1, i)
    \/ Issue(MaxSeqCalls) /\ \E i \in SeqIds : permanentlyDeleteMailbox(1, i)
    \/ LockGranted(1)
    \/ addMailboxOperation(1)
    \/ updateMailboxOperation(1)
    \/ deleteMailboxOperation(1)
    \/ permanentlyDeleteMailboxOperation(1)
    \/ WriteDel(1)
    \/ WritePut(1)
    \/ \E w \in BOOLEAN : BackendTurns(readFails, w)

SpecWriteFault == Init /\ [][NextWriteFault]_vars


\* ================================================================= claims
LockedHandlers ==
    {"addMailbox", "addMailboxesBatch", "updateMailbox", "deleteMailbox",
     "deleteMailboxesBatch"}

\* the caller has read the record set and its write is not complete
InCycle(p) == pc[p] \in {"del", "put"}

\* the caller's operation() has started (its read is issued) and has not ended
InOperation(p) == pc[p] \in {"read", "del", "put"}

Issued == {p \in Procs : op[p].kind # "none"}

AllReturned == \A p \in Procs : pc[p] = "idle"

HasId(all, id) == \E i \in 1..Len(all) : all[i].id = id

\* C1: on a whole-set backend no two calls of addMailbox, addMailboxesBatch,
\* updateMailbox, deleteMailbox, deleteMailboxesBatch are at the same time between
\* their read of the record set and the completion of their write.
MutualExclusion ==
    \A p, q \in Procs :
        (p # q /\ op[p].kind \in LockedHandlers /\ op[q].kind \in LockedHandlers)
            => ~(InCycle(p) /\ InCycle(q))

\* one locked call is writing while two others wait behind it
MutualExclusionWitness ==
    \E p \in Procs :
        /\ op[p].kind \in LockedHandlers /\ pc[p] = "put"
        /\ Cardinality({q \in Procs : pc[q] = "waitLock"}) >= 2

\* every call issued so far is an addMailbox of valid data, one per caller, and
\* no two of them name the same e-mail
OnlyDistinctAdds ==
    /\ Issued # {}
    /\ calls = Cardinality(Issued)
    /\ \A p \in Issued :
          op[p].kind = "addMailbox" /\ AddMailboxValidate(op[p].data) = ""
    /\ \A p, q \in Issued : p # q => op[p].data.email # op[q].data.email

\* C2: K addMailbox calls with K distinct valid e-mails against the initially
\* empty store all succeed and leave exactly K records, all active, one per e-mail,
\* whatever the interleaving.
NoLostUpdate ==
    (OnlyDistinctAdds /\ AllReturned) =>
        /\ \A p \in Issued : result[p].status = "ok"
        /\ blob.exists
        /\ Len(blob.data) = Cardinality(Issued)
        /\ Len(ActiveOf(blob.data)) = Cardinality(Issued)
        /\ \A p \in Issued :
              Cardinality({i \in 1..Len(blob.data) :
                              blob.data[i].email = op[p].data.email
                                  /\ blob.data[i].is_active}) = 1

NoLostUpdateWitness ==
    OnlyDistinctAdds /\ AllReturned /\ Cardinality(Issued) = 3

\* C3 (as claimed): after an addMailbox created a record, a permanentlyDeleteMailbox
\* of that record and an addMailbox of another e-mail, run concurrently, both
\* succeed; the final record set then holds the added record and not the deleted one.
PermanentDeleteSerialized ==
    \A p, q, r \in Procs :
        ( /\ AllReturned /\ calls = 3
          /\ op[r].kind = "addMailbox" /\ result[r].status = "ok"
          /\ op[p].kind = "permanentlyDeleteMailbox" /\ result[p].status = "ok"
          /\ op[p].id = result[r].mailbox.id
          /\ op[q].kind = "addMailbox" /\ result[q].status = "ok"
          /\ op[q].data.email # op[r].data.email )
        => /\ blob.exists
           /\ HasId(blob.data, result[q].mailbox.id)
           /\ ~HasId(blob.data, op[p].id)

\* C4: a locked call whose operation() has started is the earliest of the calls
\* that acquired the lock and have not yet completed: the critical sections run in
\* the order of acquisition.
FifoOrder ==
    \A p \in Procs :
        (op[p].kind \in LockedHandlers /\ InOperation(p))
            => (acqOrder # <<>> /\ Head(acqOrder) = p)

\* three callers hold tickets; the first is writing, the others wait in order
FifoOrderWitness ==
    /\ Len(acqOrder) = 3
    /\ pc[acqOrder[1]] = "put"
    /\ pc[acqOrder[2]] = "waitLock"
    /\ pc[acqOrder[3]] = "waitLock"


\* the array the caller's call writes: in hand while the write is under way, in
\* the store once the call of a single caller has returned
Written(p) == IF pc[p] \in {"del", "put"} THEN local[p] ELSE blob.data

CountEmail(all, e) == Cardinality({k \in 1..Len(all) : all[k].email = e})

HasActive(all, e) == \E k \in 1..Len(all) : all[k].email = e /\ all[k].is_active

HasRecord(all, e) == \E k \in 1..Len(all) : all[k].email = e

NoActiveDuplicate(all) ==
    \A i, j \in 1..Len(all) :
        (i # j /\ all[i].is_active /\ all[j].is_active) => all[i].email # all[j].email

\* the call has read the store and got past its checks
Computed(p) == result[p].status \in {"pending", "ok"}

\* C5 (as claimed): no two stored records with is_active = true have the same e-mail.
UniqueActiveEmail == blob.exists => NoActiveDuplicate(blob.data)

\* C6: an addMailbox that finds a stored record with its e-mail and succeeds
\* (that record being soft-deleted) returns that record's id, is_active = true and
\* the supplied credentials, writes it in place, and leaves the number of stored
\* records with that e-mail as it was (one, when it was one).
ReactivateInPlace ==
    \A p \in Procs :
        LET e == op[p].data.email
            i == FindByEmail(readSet[p], e)
            m == result[p].mailbox
        IN (op[p].kind = "addMailbox" /\ Computed(p) /\ i # 0) =>
              /\ m.id = readSet[p][i].id
              /\ m.email = e
              /\ m.is_active = TRUE
              /\ m.password = op[p].data.password
              /\ m.client_id = op[p].data.client_id
              /\ m.refresh_token = op[p].data.refresh_token
              /\ Len(Written(p)) = Len(readSet[p])
              /\ Written(p)[i] = m
              /\ CountEmail(Written(p), e) = CountEmail(readSet[p], e)

\* a soft-deleted record, the only one of its e-mail, was reactivated with other credentials
ReactivateInPlaceWitness ==
    \E p \in Procs :
        LET e == op[p].data.email
            i == FindByEmail(readSet[p], e)
        IN /\ op[p].kind = "addMailbox" /\ result[p].status = "ok" /\ pc[p] = "idle"
           /\ i # 0
           /\ CountEmail(readSet[p], e) = 1
           /\ readSet[p][i].password # op[p].data.password
           /\ CountEmail(blob.data, e) = 1

\* C7 (as claimed): an addMailbox of valid data whose e-mail has an active record in
\* the set it read fails with AlreadyExists.
AddExistingRejected ==
    \A p \in Procs :
        ( /\ op[p].kind = "addMailbox"
          /\ result[p].status # "none"
          /\ AddMailboxValidate(op[p].data) = ""
          /\ HasActive(readSet[p], op[p].data.email) )
        => (result[p].status = "error" /\ result[p].error = "AlreadyExists")

DistinctEmails(list) ==
    \A i, j \in 1..Len(list) : i # j => list[i].email # list[j].email

\* C8 (as claimed): an addMailboxesBatch of N valid entries, N distinct mailboxes,
\* each with an active record or with no record at all in the set read, M of them
\* with an active record, reports added = N - M and skipped = M, and the active
\* records written are the active records read followed by the N - M new ones,
\* no e-mail twice.
BatchCounts ==
    \A p \in Procs :
        LET list == op[p].list
            rs == readSet[p]
            M == Cardinality({k \in 1..Len(list) : HasActive(rs, list[k].email)})
        IN ( /\ op[p].kind = "addMailboxesBatch" /\ Computed(p)
             /\ DistinctEmails(list)
             /\ \A k \in 1..Len(list) :
                   HasActive(rs, list[k].email) \/ ~HasRecord(rs, list[k].email) )
           => /\ result[p].added = Len(list) - M
              /\ result[p].skipped = M
              /\ ActiveOf(Written(p)) = ActiveOf(rs) \o result[p].data
              /\ Len(result[p].data) = Len(list) - M
              /\ NoActiveDuplicate(Written(p))

HasMalformed(list) == \E k \in 1..Len(list) : BatchEntryValidate(list[k]) # ""

ValidationErrors ==
    {"BatchIncomplete", "InvalidEmail", "EmailTooLong", "PasswordTooLong",
     "ClientIdTooLong", "RefreshTokenTooLong"}

\* C9: the step that issues an addMailboxesBatch with a malformed entry at any
\* position ends the call with a validation error and leaves the store as it was.
BatchRejectedWhole ==
    [][\A p \in Procs :
          ( /\ calls' = calls + 1
            /\ pc[p] = "idle"
            /\ op'[p].kind = "addMailboxesBatch"
            /\ HasMalformed(op'[p].list) )
          => /\ pc'[p] = "idle"
             /\ result'[p].status = "error"
             /\ result'[p].error \in ValidationErrors
             /\ blob' = blob]_vars

\* a batch whose first entry is valid and whose second is malformed was rejected
\* against a store that holds records
BatchRejectedWholeWitness ==
    \E p \in Procs :
        /\ op[p].kind = "addMailboxesBatch" /\ Len(op[p].list) = 2
        /\ BatchEntryValidate(op[p].list[1]) = ""
        /\ BatchEntryValidate(op[p].list[2]) # ""
        /\ result[p].status = "error" /\ pc[p] = "idle"
        /\ blob.exists /\ Len(blob.data) > 0

\* C10 (as claimed): the record an updateMailbox returns and writes has the e-mail
\* the record had in the set read.
UpdateKeepsEmail ==
    \A p \in Procs :
        (op[p].kind = "updateMailbox" /\ Computed(p)) =>
            result[p].mailbox.email
                = readSet[p][FindById(readSet[p], op[p].id)].email


\* C11: what getStatistics returns to a single caller has total = active + inactive,
\* and total is the number of records created so far less the number physically
\* deleted.
StatisticsAddUp ==
    \A p \in Procs :
        op[p].kind = "getStatistics" =>
            /\ stats[p].total = stats[p].active + stats[p].inactive
            /\ stats[p].total = nextId - purged

\* statistics taken after records were created, one soft-deleted and one erased
StatisticsAddUpWitness ==
    \E p \in Procs :
        /\ op[p].kind = "getStatistics" /\ result[p].status = "ok"
        /\ nextId = 2 /\ purged = 1
        /\ stats[p].inactive = 1


\* the probe of target k failed with HTTP status 500
DeadSignal(k) == sweep.resp[k].kind # "network" /\ sweep.resp[k].status = 500

\* the stored record of target k is active
StillActive(k) ==
    \E i \in 1..Len(blob.data) :
        blob.data[i].id = sweep.target[k].id /\ blob.data[i].is_active # FALSE

\* C12 (as claimed): when a sweep that ran alone takes its last look at the store
\* before it returns, every targeted record whose probe did not fail with HTTP
\* status 500 is as active in the store as it was when the sweep started.
SweepRetiresOnlyDead ==
    sweep.phase = "final" =>
        \A k \in 1..Len(sweep.target) : ~DeadSignal(k) => StillActive(k)

\* the targets of the sweep whose probe was put in class c, in the order of the targets
TargetsIn(c) ==
    SelectSeq([k \in 1..Len(sweep.target) |-> k], LAMBDA k : sweep.results[k] = c)

EmailsAt(idx) == [j \in 1..Len(idx) |-> sweep.target[idx[j]].email]

\* C13: once the loop of a sweep has ended every target is in exactly one of the
\* classes valid, invalid and error; checked, removed and the number of entries of
\* errors are the sizes of the three classes and add up to the number of targets;
\* removedEmails lists the e-mails of the invalid targets and errors has one entry
\* per target in error.
SweepCounts ==
    sweep.phase \in {"retire", "final", "done"} =>
        /\ \A k \in 1..Len(sweep.target) :
              sweep.results[k] \in {"valid", "invalid", "error"}
        /\ sweep.checked = Len(TargetsIn("valid"))
        /\ sweep.removed = Len(TargetsIn("invalid"))
        /\ Len(sweep.errors) = Len(TargetsIn("error"))
        /\ sweep.checked + sweep.removed + Len(sweep.errors) = Len(sweep.target)
        /\ sweep.removedEmails = EmailsAt(TargetsIn("invalid"))
        /\ sweep.errors = EmailsAt(TargetsIn("error"))

\* a sweep of three records returned: one dead, one alive, one unreachable, and the
\* unreachable one is still active
SweepCountsWitness ==
    /\ sweep.phase = "done" /\ sweep.error = ""
    /\ Len(sweep.target) = 3
    /\ sweep.checked = 1 /\ sweep.removed = 1 /\ Len(sweep.errors) = 1
    /\ \E k \in 1..3 : sweep.resp[k] = Unreachable /\ StillActive(k)

\* the batch of target k (from 0)
BatchNo(k) == (k - 1) \div sweep.concurrency

\* C14: during a sweep at most `concurrency` probes are outstanding, and a probe is
\* started only when every probe of the batches before its own has returned.
BoundedProbes ==
    sweep.phase # "none" =>
        /\ Cardinality(sweep.inflight) <= sweep.concurrency
        /\ \A k \in sweep.started, j \in 1..Len(sweep.target) :
              BatchNo(j) < BatchNo(k) => (j \in sweep.started /\ j \notin sweep.inflight)

\* three targets, two at a time: the third probe is outstanding alone
BoundedProbesWitness ==
    /\ sweep.phase = "probing" /\ sweep.concurrency = 2
    /\ Len(sweep.target) = 3 /\ sweep.inflight = {3}


ReadHandlers == {"getAllMailboxes", "getMailboxById", "getMailboxByEmail", "getStatistics"}

\* q is the one caller whose write is being committed
OnlyCommitting(q) == \A r \in Procs : InCycle(r) <=> r = q

MutatingHandlers == LockedHandlers \cup {"permanentlyDeleteMailbox"}

\* C16: a mutating handler returns normally from its write only when the array it
\* computed has become the stored one, and a sweep goes on after its retiring
\* deleteMailboxesBatch only when that call returned normally: otherwise the sweep
\* ends with the error.
WriteFailurePropagates ==
    [][/\ \A p \in Procs :
             (pc[p] = "put" /\ pc'[p] = "idle" /\ result'[p].status = "ok")
                 => blob' = [exists |-> TRUE, data |-> local[p]]
       /\ (sweep.phase = "retire" /\ sweep'.phase # "retire")
             => IF result[sweep.caller].status = "ok"
                THEN sweep'.phase = "final"
                ELSE sweep'.phase = "done" /\ sweep'.error # ""]_vars

\* a sweep whose retiring write failed has ended with that error
WriteFailurePropagatesWitness ==
    /\ sweep.phase = "done" /\ sweep.error = "WriteFailed"
    /\ Len(sweep.removedIds) > 0

\* C17 (as claimed): a mutating handler whose read of an existing store fails ends
\* with an error and writes nothing.
ReadFailureSurfaces ==
    [][\A p \in Procs :
          ( /\ pc[p] = "read" /\ pc'[p] # "read"
            /\ op[p].kind \in MutatingHandlers
            /\ readFails /\ blob.exists )
          => (pc'[p] = "idle" /\ result'[p].status = "error")]_vars


\* the four credential fields of a record pass the checks of addMailbox
FieldsValid(m) ==
    AddMailboxValidate(Payload(m.email, m.password, m.client_id, m.refresh_token, "")) = ""

\* C18 (as claimed): every stored record has non-empty e-mail, password, client_id
\* and refresh_token within the length limits and an e-mail of the shape
\* local@domain.tld.
StoredFieldsValid ==
    blob.exists => \A i \in 1..Len(blob.data) : FieldsValid(blob.data[i])


InIds(ids, id) == \E j \in 1..Len(ids) : ids[j] = id

\* C19: a deleteMailboxesBatch of a non-empty list never throws because of the ids
\* in it; deleted is the number of records it turned from active to inactive, which
\* are the active records whose id is in the list, each counted once; total is the
\* length of the list.
BatchDeleteCounts ==
    \A p \in Procs :
        LET rs == readSet[p]
            w == Written(p)
        IN (op[p].kind = "deleteMailboxesBatch" /\ Len(op[p].ids) > 0
               /\ result[p].status # "none") =>
              /\ Computed(p)
              /\ Len(w) = Len(rs)
              /\ result[p].deleted =
                    Cardinality({i \in 1..Len(rs) :
                                    rs[i].is_active # FALSE /\ w[i].is_active = FALSE})
              /\ result[p].deleted =
                    Cardinality({i \in 1..Len(rs) :
                                    rs[i].is_active # FALSE /\ InIds(op[p].ids, rs[i].id)})
              /\ result[p].total = Len(op[p].ids)

\* a list naming the same active record twice retired it and counted it once
BatchDeleteCountsWitness ==
    \E p \in Procs :
        /\ op[p].kind = "deleteMailboxesBatch" /\ op[p].ids = <<2, 2>>
        /\ result[p].status = "ok" /\ pc[p] = "idle"
        /\ result[p].deleted = 1 /\ result[p].total = 2

\* the source the reactivating call supplies, or the default
SuppliedSource(data) == IF data.source # "" THEN data.source ELSE "manual"

\* C20: a record reactivated by addMailbox or addMailboxesBatch keeps the source it
\* had when it had one, whatever source the call supplies; only a record without a
\* source takes the supplied or default one.
ReactivationKeepsSource ==
    \A p \in Procs :
        LET rs == readSet[p]
        IN /\ (op[p].kind = "addMailbox" /\ Computed(p)
                  /\ FindByEmail(rs, op[p].data.email) # 0) =>
                 LET old == rs[FindByEmail(rs, op[p].data.email)]
                 IN result[p].mailbox.source =
                        IF old.source # "" THEN old.source
                        ELSE SuppliedSource(op[p].data)
           /\ (op[p].kind = "addMailboxesBatch" /\ Computed(p)) =>
                 \A k \in 1..Len(result[p].data), j \in 1..Len(rs) :
                     (result[p].data[k].id = rs[j].id /\ rs[j].source # "")
                         => result[p].data[k].source = rs[j].source

\* a record created as a purchase was reactivated by a call that supplied no source
ReactivationKeepsSourceWitness ==
    \E p \in Procs :
        LET rs == readSet[p]
            i == FindByEmail(rs, op[p].data.email)
        IN /\ op[p].kind = "addMailbox" /\ result[p].status = "ok" /\ pc[p] = "idle"
           /\ i # 0
           /\ rs[i].source = "purchase"
           /\ SuppliedSource(op[p].data) = "manual"
           /\ result[p].mailbox.source = "purchase"


\* the backend the selection policy names for a force-legacy flag, a configured
\* database URL, a database that can be reached and a blob credential
Policy(force, url, live, credential) ==
    IF force THEN (IF credential THEN "blob" ELSE "file")
    ELSE IF url /\ live THEN "postgres"
    ELSE IF credential THEN "blob" ELSE "file"

\* C21 (as claimed): the backend in use is the one the policy names: with the
\* force-legacy flag Remote-Blob if a blob credential is present, else Local-File;
\* otherwise Relational exactly when a database URL is configured and a connection
\* to the database can be established, else Remote-Blob or Local-File as before.
BackendFollowsPolicy ==
    storageMode = Policy(config.useLegacyStorage, config.databaseUrl # NoUrl,
                         dbReachable, config.blobToken # "")


\* the records of the store as caller p's call leaves them: in hand while a
\* whole-set write is under way, in the store otherwise
Leaves(p) == IF pc[p] \in {"del", "put"} THEN local[p] ELSE Stored

\* C22: an addMailboxesBatch that repeats the caller's previous call, which returned
\* normally, reports added = 0, reactivated = 0 and skipped = N and leaves every
\* record as it found it, which is as the first call left it.
BatchIdempotent ==
    \A p \in Procs :
        (op[p].kind = "addMailboxesBatch" /\ repeats[p] /\ result[p].status \in {"pending", "ok"}) =>
            /\ result[p].added = 0
            /\ result[p].reactivated = 0
            /\ result[p].skipped = Len(op[p].list)
            /\ Leaves(p) = readSet[p]

\* a batch of two mailboxes was applied twice in succession on the whole-set
\* backend; the second call has returned
BatchIdempotentWitness ==
    /\ storageMode = "blob"
    /\ op[1].kind = "addMailboxesBatch" /\ repeats[1]
    /\ pc[1] = "idle" /\ result[1].status = "ok"
    /\ Len(op[1].list) = 2 /\ op[1].list[1].email # op[1].list[2].email
    /\ Len(blob.data) = 2


\* entry k of the batch names an e-mail an earlier entry names
Later(l, k) == \E j \in 1..(k - 1) : l[j].email = l[k].email

\* the first entry of the batch that names the e-mail e
FirstOf(l, e) == Min({k \in 1..Len(l) : l[k].email = e})

CountIn(s, e) == Cardinality({k \in 1..Len(s) : s[k] = e})

\* C23: an addMailboxesBatch of N valid entries that returns has added + reactivated
\* + skipped = N, one skipped e-mail per skipped entry and one returned record per
\* added or reactivated entry; an entry is added exactly when it is the first of
\* its e-mail and the set read holds no record of it, the record created then has
\* the credentials of that first entry, every later entry of the e-mail is skipped,
\* and the number of records of an e-mail that had one does not change.
BatchClassifies ==
    \A p \in Procs :
        LET l == op[p].list
            rs == readSet[p]
            res == result[p]
            w == Leaves(p)
        IN (op[p].kind = "addMailboxesBatch" /\ res.status \in {"pending", "ok"}) =>
              /\ res.added + res.reactivated + res.skipped = Len(l)
              /\ Len(res.skippedEmails) = res.skipped
              /\ Len(res.data) = res.added + res.reactivated
              /\ res.added = Cardinality({k \in 1..Len(l) :
                                             ~Later(l, k) /\ ~HasRecord(rs, l[k].email)})
              /\ \A k \in 1..Len(l) :
                    LET e == l[k].email
                        occ == Cardinality({j \in 1..Len(l) : l[j].email = e})
                    IN /\ CountIn(res.skippedEmails, e) \in {occ - 1, occ}
                       /\ HasRecord(rs, e) => CountEmail(w, e) = CountEmail(rs, e)
                       /\ ~HasRecord(rs, e) =>
                             /\ CountIn(res.skippedEmails, e) = occ - 1
                             /\ CountEmail(w, e) = 1
                             /\ \E i \in 1..Len(w) :
                                   /\ w[i].email = e
                                   /\ w[i].password = l[FirstOf(l, e)].password

\* a batch that names one new mailbox twice, with different credentials, and another
\* in between has returned on the relational backend
BatchClassifiesWitness ==
    /\ storageMode = "postgres"
    /\ op[1].kind = "addMailboxesBatch" /\ result[1].status = "ok"
    /\ Len(op[1].list) = 3 /\ op[1].list[1].email = op[1].list[3].email
    /\ result[1].added = 2 /\ result[1].skipped = 1


\* a record without its id and its timestamps
Fields(m) ==
    [email |-> m.email, password |-> m.password, client_id |-> m.client_id,
     refresh_token |-> m.refresh_token, is_active |-> m.is_active, source |-> m.source]

\* the two arrays hold the same records, as many times each, up to ids and timestamps
SameRecords(a, b) ==
    /\ Len(a) = Len(b)
    /\ \A i \in 1..Len(a) :
          Cardinality({j \in 1..Len(a) : Fields(a[j]) = Fields(a[i])})
              = Cardinality({j \in 1..Len(b) : Fields(b[j]) = Fields(a[i])})

\* the two calls ended alike: both returned or both threw the same error, with the
\* same counts and the same record up to its id and timestamps
SameOutcome(r, s) ==
    /\ r.status = s.status
    /\ r.error = s.error
    /\ r.added = s.added /\ r.reactivated = s.reactivated /\ r.skipped = s.skipped
    /\ r.skippedEmails = s.skippedEmails
    /\ r.deleted = s.deleted /\ r.total = s.total
    /\ Fields(r.mailbox) = Fields(s.mailbox)
    /\ SameRecords(r.data, s.data)

\* C24 (as claimed): after every sequence of calls made one after another, the
\* service on the whole-set backend and the service on the relational backend have
\* ended the last call alike and hold the same records up to ids and timestamps.
BackendsAgree ==
    (pc[1] = "idle" /\ TwinIdle /\ calls > 0) =>
        /\ SameOutcome(result[1], twin.result)
        /\ SameRecords(blob.data, TableToJson(table))

\* C25 (as claimed): a sweep whose probes have been started eventually returns its
\* result, also when the probe of one target never completes.
SweepReturns == (sweep.phase = "probing") ~> (sweep.phase = "done")

\* C26 (as claimed): when the only calls made on an empty store are two addMailbox
\* calls for the same valid e-mail, by two callers in any interleaving, then once
\* both have ended one has returned, the other has thrown AlreadyExists, and the
\* store in use holds exactly one record of the e-mail.
ConcurrentAddOnce ==
    \A e \in {EmailA, EmailB} :
        (/\ calls = 2
         /\ \A p \in {1, 2} : /\ op[p].kind = "addMailbox"
                              /\ op[p].data.email = e
                              /\ pc[p] = "idle") =>
            /\ {result[1].status, result[2].status} = {"ok", "error"}
            /\ \A p \in {1, 2} :
                  result[p].status = "error" => result[p].error = "AlreadyExists"
            /\ CountEmail(Stored, e) = 1

\* the call of p under the lock has thrown an error of its own operation: the
\* record it adds is there and active, the id it names is not there, or the
\* backend refused its write
OwnFailure(p) ==
    \/ /\ result[p].error = "AlreadyExists"
       /\ op[p].kind = "addMailbox"
       /\ HasActive(readSet[p], op[p].data.email)
    \/ /\ result[p].error = "NotFound"
       /\ op[p].kind = "deleteMailbox"
       /\ ~HasId(readSet[p], op[p].id)
    \/ result[p].error = "WriteFailed"

Credentials(m) ==
    [email |-> m.email, password |-> m.password, client_id |-> m.client_id,
     refresh_token |-> m.refresh_token]

\* the sweep's deleteMailboxesBatch has read the set and computed the new one
SweepRetiring ==
    /\ sweep.phase = "retire"
    /\ op[sweep.caller].kind = "deleteMailboxesBatch"
    /\ pc[sweep.caller] \in {"del", "put"}

\* C28 (as claimed): every record the sweep's batch soft-delete turns from active to
\* inactive was probed by this sweep, with the credentials it holds when it is
\* retired, and the probe found it dead.
SweepRetiresWhatItProbed ==
    SweepRetiring =>
        LET c == sweep.caller
        IN \A i \in 1..Len(readSet[c]) :
              (readSet[c][i].is_active /\ ~local[c][i].is_active) =>
                  \E k \in 1..Len(sweep.target) :
                      /\ sweep.target[k].id = readSet[c][i].id
                      /\ sweep.results[k] = "invalid"
                      /\ Credentials(sweep.target[k]) = Credentials(readSet[c][i])

\* the records the sweep's batch soft-delete turned from active to inactive: those
\* of the set it read under the lock that were active and whose id it was given
RetiredBySweep ==
    LET c == sweep.caller
    IN IF Len(sweep.removedIds) = 0 THEN <<>>
       ELSE SelectSeq(readSet[c],
                      LAMBDA m : m.is_active /\ InIds(sweep.removedIds, m.id))

\* C29 (as claimed): when a sweep has returned its result (and its caller has made
\* no call since), removed is the number
\* of records this sweep turned from active to inactive, removedEmails are their
\* e-mails, and none of them is the e-mail of a record of the returned remaining
\* active set.
SweepReportsItsOwn ==
    (/\ sweep.phase = "done" /\ sweep.error = ""
     /\ op[sweep.caller].kind \in {"validateMailboxesBySource", "deleteMailboxesBatch"}) =>
        /\ sweep.removed = Len(RetiredBySweep)
        /\ \A e \in {EmailA, EmailB} :
              CountIn(sweep.removedEmails, e)
                  = Cardinality({i \in 1..Len(RetiredBySweep) : RetiredBySweep[i].email = e})
        /\ \A k \in 1..Len(sweep.removedEmails) :
              ~\E i \in 1..Len(sweep.data) : sweep.data[i].email = sweep.removedEmails[k]

\* C30 (as claimed): when a call has ended with the error of a failed write, a read
\* returns the record set as it was stored before the failed operation, which is
\* the set the operation read.
FailedWriteKeepsSet ==
    (pc[1] = "idle" /\ result[1].status = "error" /\ result[1].error = "WriteFailed") =>
        ReadMailboxesLegacy = readSet[1]

====
